---- MODULE Spec2Model ----
(***************************************************************************)
(* Model of the Polymarket ETH/BTC 15-minute arbitrage bot:                *)
(*   src/src/arbitrage.rs  ArbitrageDetector  (pure detector)              *)
(*   src/src/monitor.rs    MarketMonitor      (current markets, token ids) *)
(*   src/src/trader.rs     Trader             (pending positions, sweep)   *)
(*                                                                         *)
(* Decimal money values are integers in cents (1.0 = 100).  f64 money and  *)
(* unit values are fixed-point integers in thousandths (1.0 = 1000) with   *)
(* round-to-nearest multiplication and division, so that a quotient is     *)
(* inexact as it is in the code.  Option<T> is the empty tuple (None) or   *)
(* a one-element tuple (Some).  Time is in seconds.                        *)
(***************************************************************************)
EXTENDS Integers, Sequences, FiniteSets, TLC

VARIABLES
    \* ---- detector harness (arbitrage.rs) ----
    min_profit_threshold,   \* ArbitrageDetector.min_profit_threshold (cents)
    snapshot,               \* the MarketSnapshot handed to detect_opportunities
    opportunities,          \* the Vec it returned
    detected,               \* whether detect_opportunities has been applied
    \* ---- clock ----
    now,                    \* Instant::now() / SystemTime::now(), in seconds
    \* ---- Price Source (external) ----
    status,                 \* per condition id: "open", or closed with "up"/"down" the winner
    \* ---- Trader (trader.rs) ----
    simulation_mode,        \* Trader.simulation_mode
    total_profit,           \* Trader.total_profit (thousandths)
    trades_executed,        \* Trader.trades_executed
    pending_trades,         \* Trader.pending_trades: trade key -> PendingTrade
    market_cache,           \* Trader.market_cache: condition id -> CachedMarketData
    pending_lock,           \* holder of the pending_trades mutex, as an Option
    exec,                   \* per execute_arbitrage task: position in the call and its locals
    sw,                     \* per check_pending_trades task: position in the call and its locals
    contributed,            \* history: trade key -> units/investment added, and the BUY
                            \* orders submitted, by the calls so far
    ledger,                 \* history: trade key -> opportunities accumulated into the position
    settled_profit,         \* history: sum, over the positions removed so far, of the profit
                            \* of each by its units and investment at removal
    last_sweep,             \* the instant the sweep timer last fired, if it has
    \* ---- MarketMonitor (monitor.rs) ----
    eth_market,             \* MarketMonitor.eth_market (its condition_id)
    btc_market,             \* MarketMonitor.btc_market (its condition_id)
    eth_up_token_id,        \* cached token ids, each an Option
    eth_down_token_id,
    btc_up_token_id,
    btc_down_token_id,
    last_market_refresh,    \* Option<Instant>
    current_period_timestamp,
    fetch,                  \* per fetch_market_data task: position in the call and its locals
    upd,                    \* the update_markets task: position in the call and its arguments
    updates,                \* history: update_markets calls started
    fresh_update,           \* history: update_markets returned, alone, and nothing ran since
    refreshed_at,           \* history: instant of the latest token refresh, never cleared
    disc,                   \* the should_discover_new_markets call: position, clock read, result
    meta_at,                \* history: per market slot, instant of its latest get_market
                            \* with no update_markets call running then or since
    \* ---- calculate_position_size in binary64 (trader.rs) ----
    sizing,                 \* one call: max_position_size, total_cost and the f64 returned
    \* ---- get_stats (trader.rs) ----
    stats                   \* the get_stats call: position, the total read, the pair returned

dvars == <<min_profit_threshold, snapshot, opportunities, detected>>
tvars == <<now, status, simulation_mode, total_profit, trades_executed, pending_trades,
           market_cache, pending_lock, exec, sw, contributed, ledger, settled_profit,
           last_sweep>>
mvars == <<eth_market, btc_market, eth_up_token_id, eth_down_token_id, btc_up_token_id,
           btc_down_token_id, last_market_refresh, current_period_timestamp, fetch, upd,
           updates, fresh_update, refreshed_at, meta_at, disc>>
svars == <<sizing, stats>>
vars == <<dvars, tvars, mvars, svars>>

(***************************************************************************)
(* Option<T>                                                               *)
(***************************************************************************)
None == <<>>
Some(v) == <<v>>
IsSome(o) == o # <<>>
Unwrap(o) == o[1]
OptionOf(S) == {None} \cup {Some(v) : v \in S}

(***************************************************************************)
(* Identifiers                                                             *)
(***************************************************************************)
\* Condition ids are strings; "0xe2" is shorter than the 16 bytes the sweep's log
\* lines slice off (trader.rs:72,74).
E1 == "0xe1aaaaaaaaaaaaaaaa"
E2 == "0xe2"
B1 == "0xb1aaaaaaaaaaaaaaaa"
B2 == "0xb2aaaaaaaaaaaaaaaa"
EthCids == {E1, E2}
BtcCids == {B1, B2}
Cids == EthCids \cup BtcCids
TokenId(cid, side) == <<cid, side>>

(***************************************************************************)
(* arbitrage.rs                                                            *)
(***************************************************************************)
dollar == 100
min_price_threshold == 60

\* TokenPrice::ask_price: the ask as a plain Decimal, zero when absent.
ask_price(tp) == IF IsSome(tp.ask) THEN Unwrap(tp.ask) ELSE 0

\* check_arbitrage with the safety filter's "&&" written "||"
check_arbitrage_either_low(threshold, token1, token2, condition1, condition2) ==
    LET price1 == ask_price(token1)
        price2 == ask_price(token2)
        total_cost == price1 + price2
    IN  IF price1 < min_price_threshold \/ price2 < min_price_threshold
        THEN None
        ELSE IF total_cost < dollar /\ dollar - total_cost >= threshold
        THEN Some([eth_up_price |-> price1,
                   btc_down_price |-> price2,
                   total_cost |-> total_cost,
                   expected_profit |-> dollar - total_cost,
                   eth_up_token_id |-> token1.token_id,
                   btc_down_token_id |-> token2.token_id,
                   eth_condition_id |-> condition1,
                   btc_condition_id |-> condition2])
        ELSE None

\* check_arbitrage: Some(opportunity) or None.
check_arbitrage(threshold, token1, token2, condition1, condition2) ==
    LET price1 == ask_price(token1)
        price2 == ask_price(token2)
        total_cost == price1 + price2
    IN  IF price1 < min_price_threshold /\ price2 < min_price_threshold
        THEN None
        ELSE IF total_cost < dollar /\ dollar - total_cost >= threshold
        THEN Some([eth_up_price |-> price1,
                   btc_down_price |-> price2,
                   total_cost |-> total_cost,
                   expected_profit |-> dollar - total_cost,
                   eth_up_token_id |-> token1.token_id,
                   btc_down_token_id |-> token2.token_id,
                   eth_condition_id |-> condition1,
                   btc_condition_id |-> condition2])
        ELSE None

\* detect_opportunities: the two pairings, in order, each pushed when found.
detect_opportunities(threshold, snap) ==
    LET eth_up == snap.eth_market.up_token
        eth_down == snap.eth_market.down_token
        btc_up == snap.btc_market.up_token
        btc_down == snap.btc_market.down_token
        s1 == IF IsSome(eth_up) /\ IsSome(btc_down)
              THEN check_arbitrage(threshold, Unwrap(eth_up), Unwrap(btc_down),
                                   snap.eth_market.condition_id,
                                   snap.btc_market.condition_id)
              ELSE None
        s2 == IF IsSome(eth_down) /\ IsSome(btc_up)
              THEN check_arbitrage(threshold, Unwrap(eth_down), Unwrap(btc_up),
                                   snap.eth_market.condition_id,
                                   snap.btc_market.condition_id)
              ELSE None
    IN  s1 \o s2

(***************************************************************************)
(* Detector harness: inputs drawn from a bounded grid, one application.    *)
(***************************************************************************)
AskGrid == {30, 39, 40, 59, 60}
BidGrid == {50}
Thresholds == {1, 10}

TokenPrices(cid, side) ==
    [token_id : {TokenId(cid, side)}, bid : OptionOf(BidGrid), ask : OptionOf(AskGrid)]

MarketDatas(cid) ==
    [condition_id : {cid},
     up_token : OptionOf(TokenPrices(cid, "UP")),
     down_token : OptionOf(TokenPrices(cid, "DOWN"))]

DetectorSnapshots == [eth_market : MarketDatas(E1), btc_market : MarketDatas(B1)]

DetInit ==
    /\ min_profit_threshold \in Thresholds
    /\ snapshot \in DetectorSnapshots
    /\ opportunities = <<>>
    /\ detected = FALSE

Detect ==
    /\ ~detected
    /\ opportunities' = detect_opportunities(min_profit_threshold, snapshot)
    /\ detected' = TRUE
    /\ UNCHANGED <<min_profit_threshold, snapshot>>
    /\ UNCHANGED <<tvars, mvars, svars>>

DetNext == Detect

(***************************************************************************)
(* Properties of the detector (SpecDetector)                               *)
(***************************************************************************)
\* the two legs of pairing p: 1 = ETH up + BTC down, 2 = ETH down + BTC up
Leg1(p) == IF p = 1 THEN snapshot.eth_market.up_token ELSE snapshot.eth_market.down_token
Leg2(p) == IF p = 1 THEN snapshot.btc_market.down_token ELSE snapshot.btc_market.up_token
AsksPresent(p) ==
    /\ IsSome(Leg1(p)) /\ IsSome(Unwrap(Leg1(p)).ask)
    /\ IsSome(Leg2(p)) /\ IsSome(Unwrap(Leg2(p)).ask)
Ask1(p) == Unwrap(Unwrap(Leg1(p)).ask)
Ask2(p) == Unwrap(Unwrap(Leg2(p)).ask)
\* the opportunities emitted for pairing p, told by the ETH leg's token
EmittedFor(p) ==
    {i \in DOMAIN opportunities :
        opportunities[i].eth_up_token_id = TokenId(E1, IF p = 1 THEN "UP" ELSE "DOWN")}

\* C1: for a pairing whose two asks are present, exactly one opportunity is emitted
\* when the asks are not both below 0.6, their sum is below 1.0 and 1.0 minus the sum
\* is at least min_profit_threshold; otherwise none is emitted for it.
C1_EmitsExactlyWhenProfitable ==
    detected =>
        \A p \in {1, 2} :
            AsksPresent(p) =>
                Cardinality(EmittedFor(p)) =
                    IF /\ ~(Ask1(p) < 60 /\ Ask2(p) < 60)
                       /\ Ask1(p) + Ask2(p) < 100
                       /\ 100 - (Ask1(p) + Ask2(p)) >= min_profit_threshold
                    THEN 1 ELSE 0

\* C1 witness: pairing 1 quoted 0.60 + 0.30 with threshold 0.10 gives one opportunity,
\* pairing 2 quoted 0.40 + 0.60 (cost exactly 1.0) gives none.
C1_Witness ==
    /\ detected
    /\ min_profit_threshold = 10
    /\ AsksPresent(1) /\ Ask1(1) = 60 /\ Ask2(1) = 30
    /\ AsksPresent(2) /\ Ask1(2) = 40 /\ Ask2(2) = 60
    /\ Len(opportunities) = 1
    /\ opportunities[1].total_cost = 90

DetIdle ==
    /\ min_profit_threshold = 1
    /\ snapshot = None
    /\ opportunities = <<>>
    /\ detected = TRUE

(***************************************************************************)
(* f64 arithmetic: fixed point in thousandths, results rounded to nearest. *)
(***************************************************************************)
FScale == 1000
\* f64::try_from(Decimal): cents to thousandths
FromDecimal(c) == (c * FScale) \div dollar
FDiv(a, b) == (2 * a * FScale + b) \div (2 * b)
FMul(a, b) == (2 * a * b + FScale) \div (2 * FScale)
FMin(a, b) == IF a <= b THEN a ELSE b

(***************************************************************************)
(* trader.rs: pure parts                                                   *)
(***************************************************************************)
\* TradingConfig.max_position_size values the Trader is built with (thousandths)
MaxPositionSizes == {75000}
max_position_size == CHOOSE m \in MaxPositionSizes : TRUE

\* calculate_position_size, in thousandths (calculate_position_size_f64 is the same in binary64)
calculate_position_size(opportunity) ==
    LET max_size == max_position_size
        cost_per_unit == FromDecimal(opportunity.total_cost)
        units == FDiv(max_size, cost_per_unit)
    IN  FMin(FMul(units, cost_per_unit), max_size)

\* units = position_size / cost_per_unit (trader.rs:287-288, 390-391)
units_for(opportunity, position_size) ==
    FDiv(position_size, FromDecimal(opportunity.total_cost))

\* format!("{}_{}", eth_condition_id, btc_condition_id)
trade_key(eth_condition_id, btc_condition_id) ==
    eth_condition_id \o "_" \o btc_condition_id

\* a branch that stores the new amounts in place of adding them
accumulate_overwrite(existing_trade, units, position_size) ==
    [existing_trade EXCEPT !.units = units,
                           !.investment_amount = position_size]

\* the branch "existing_trade.units += units; existing_trade.investment_amount += position_size"
accumulate(existing_trade, units, position_size) ==
    [existing_trade EXCEPT !.units = @ + units,
                           !.investment_amount = @ + position_size]

\* the branch that builds a new PendingTrade
new_pending_trade(opportunity, units, position_size, timestamp) ==
    [eth_token_id |-> opportunity.eth_up_token_id,
     btc_token_id |-> opportunity.btc_down_token_id,
     eth_condition_id |-> opportunity.eth_condition_id,
     btc_condition_id |-> opportunity.btc_condition_id,
     investment_amount |-> position_size,
     units |-> units,
     timestamp |-> timestamp]

\* calculate_actual_profit
calculate_actual_profit(trade, eth_winner, btc_winner) ==
    LET payout_per_unit == IF eth_winner /\ btc_winner THEN 2 * FScale
                           ELSE IF eth_winner \/ btc_winner THEN 1 * FScale
                           ELSE 0
        total_payout == FMul(payout_per_unit, trade.units)
    IN  total_payout - trade.investment_amount

(***************************************************************************)
(* Price Source: get_market                                                *)
(***************************************************************************)
\* the tokens of an up/down market as the Price Source labels them: "Up", "Down"
StandardOutcomes == << [tag |-> "UP", outcome |-> <<"U", "p">>],
                       [tag |-> "DOWN", outcome |-> <<"D", "o", "w", "n">>] >>

\* MarketDetails as get_market returns it for a market in status st whose tokens
\* carry the outcome labels of outcomes
MarketDetailsLabelled(cid, st, outcomes) ==
    [closed |-> st # "open",
     tokens |-> [i \in DOMAIN outcomes |->
                    [token_id |-> TokenId(cid, outcomes[i].tag),
                     outcome |-> outcomes[i].outcome,
                     winner |-> \/ (st = "up" /\ outcomes[i].tag = "UP")
                                \/ (st = "down" /\ outcomes[i].tag = "DOWN")]]]

\* MarketDetails as get_market returns it for a market in status st
MarketDetails(cid, st) == MarketDetailsLabelled(cid, st, StandardOutcomes)

\* market.tokens.iter().find(|t| t.token_id == token_id).map(|t| t.winner).unwrap_or(false)
token_winner(market, token_id) ==
    LET hits == {i \in DOMAIN market.tokens : market.tokens[i].token_id = token_id}
    IN  IF hits = {} THEN FALSE
        ELSE market.tokens[CHOOSE i \in hits : \A j \in hits : i <= j].winner

\* the (closed, winner) answer of check_market_result_cached from one MarketDetails
market_result(market, token_id) ==
    IF market.closed THEN <<TRUE, token_winner(market, token_id)>> ELSE <<FALSE, FALSE>>

\* format!("{:.6}", x): an f64 amount as a decimal string of six places, held
\* as the number of millionths it spells
format_6(x) == x * (1000000 \div FScale)

\* OrderRequest { token_id, side, size, price, order_type: "LIMIT" }
OrderRequest(token_id, side, size, price) ==
    [token_id |-> token_id, side |-> side, size |-> size, price |-> price,
     order_type |-> "LIMIT"]

\* the two BUY orders of execute_real_trade (trader.rs:344-364)
buy_orders(opportunity, position_size) ==
    LET size_str == format_6(position_size)
    IN  << OrderRequest(opportunity.eth_up_token_id, "BUY", size_str,
                        opportunity.eth_up_price),
           OrderRequest(opportunity.btc_down_token_id, "BUY", size_str,
                        opportunity.btc_down_price) >>

\* a SELL order sized by the money invested
sell_order_at_cost(trade, leg) ==
    OrderRequest(IF leg = "eth" THEN trade.eth_token_id ELSE trade.btc_token_id,
                 "SELL", format_6(trade.investment_amount), dollar)

\* the SELL order of sell_winning_tokens for one leg: sell_price "1.0", size the
\* trade's units (trader.rs:170-179, 190-199)
sell_order(trade, leg) ==
    OrderRequest(IF leg = "eth" THEN trade.eth_token_id ELSE trade.btc_token_id,
                 "SELL", format_6(trade.units), dollar)

cache_ttl == 60
min_age == 840
id_prefix_len == 16

(***************************************************************************)
(* Trader tasks.  Each action is one stretch of a call between two points  *)
(* where the task can be suspended: a lock acquisition or a network call.  *)
(***************************************************************************)
Executors == {"x1", "x2"}
Sweepers == {"s1"}
MaxTrades == 2
\* the instants the clock visits
TimeGrid == {0, 840, 900}

\* condition-id pairs and quotes of the opportunities handed to execute_arbitrage
\* the markets that resolve within the horizon, each with the outcomes it can take
Resolutions == {<<E1, "up">>, <<E1, "down">>, <<B1, "up">>, <<B1, "down">>, <<E2, "up">>}
UpDown == <<"UP", "DOWN">>
DownUp == <<"DOWN", "UP">>
\* <<condition ids, outcome of each leg, ask of each leg>>
TraderInputs == {<< <<E1, B1>>, UpDown, <<70, 5>> >>,
                 << <<E1, B1>>, UpDown, <<60, 30>> >>,
                 << <<E1, B1>>, DownUp, <<70, 5>> >>,
                 << <<E2, B1>>, UpDown, <<70, 5>> >>}

TraderOpps ==
    {Unwrap(o) : o \in
        {check_arbitrage(1,
            [token_id |-> TokenId(i[1][1], i[2][1]), bid |-> None, ask |-> Some(i[3][1])],
            [token_id |-> TokenId(i[1][2], i[2][2]), bid |-> None, ask |-> Some(i[3][2])],
            i[1][1], i[1][2]) : i \in TraderInputs}
        \ {None}}

\* the opportunities offered while the sweep runs: one per condition-id pair
SweepOpps == {o \in TraderOpps : o.eth_up_price = 70 /\ o.eth_up_token_id[2] = "UP"}

KeyOf(o) == trade_key(o.eth_condition_id, o.btc_condition_id)

ExecIdle == [pc |-> "idle", opp |-> None, position_size |-> 0, units |-> 0, seen |-> None,
             orders |-> <<>>, results |-> <<>>]
SwIdle == [pc |-> "idle", todo |-> {}, cur |-> "", to_remove |-> {},
           eth |-> <<FALSE, FALSE>>, btc |-> <<FALSE, FALSE>>, reported |-> <<>>,
           net_failed |-> {}, sold |-> <<>>]

Restrict(f, D) == [k \in D |-> f[k]]
Put(f, k, v) == [x \in DOMAIN f \cup {k} |-> IF x = k THEN v ELSE f[x]]

StatsIdle == [pc |-> "idle", total |-> 0, result |-> None]

TraderInit ==
    /\ now = 0
    /\ status = [c \in Cids |-> "open"]
    /\ simulation_mode \in BOOLEAN
    /\ total_profit = 0
    /\ trades_executed = 0
    /\ pending_trades = <<>>
    /\ market_cache = <<>>
    /\ pending_lock = None
    /\ exec = [t \in Executors |-> ExecIdle]
    /\ sw = [t \in Sweepers |-> SwIdle]
    /\ contributed = <<>>
    /\ ledger = <<>>
    /\ settled_profit = 0
    /\ last_sweep = None
    /\ stats = StatsIdle

InFlight == Cardinality({t \in Executors : exec[t].pc # "idle"})

\* a guard dropped between the look-up and the mutation
guard_dropped_after_lookup(t) == None

\* who holds the pending_trades mutex between the look-up and the mutation
\* (trader.rs:302-324, 396-418: one guard, dropped after the branch)
guard_after_lookup(t) == Some(t)

\* execute_arbitrage entry: position size and units (trader.rs:283-288, 344, 390-391)
XStart(t, o) ==
    /\ exec[t].pc = "idle"
    /\ trades_executed + InFlight < MaxTrades
    /\ LET size == calculate_position_size(o)
       IN  exec' = [exec EXCEPT ![t] =
                [pc |-> IF simulation_mode THEN "lock" ELSE "orders",
                 opp |-> Some(o), position_size |-> size,
                 units |-> units_for(o, size), seen |-> None,
                 orders |-> <<>>, results |-> <<>>]]
    /\ UNCHANGED <<now, status, simulation_mode, total_profit, trades_executed,
                   pending_trades, market_cache, pending_lock, sw, contributed, ledger,
                   settled_profit, last_sweep>>
    /\ UNCHANGED <<dvars, mvars, svars>>

\* a live trade given up when a placement fails
XOrders_stop_on_failure(t) ==
    /\ exec[t].pc = "orders"
    /\ \E eth_ok, btc_ok \in BOOLEAN :
         exec' = [exec EXCEPT ![t] =
                    IF eth_ok /\ btc_ok
                    THEN [@ EXCEPT !.pc = "lock",
                                   !.orders = buy_orders(Unwrap(exec[t].opp),
                                                         exec[t].position_size),
                                   !.results = <<eth_ok, btc_ok>>]
                    ELSE ExecIdle]
    /\ UNCHANGED <<now, status, simulation_mode, total_profit, trades_executed,
                   pending_trades, market_cache, pending_lock, sw, contributed, ledger,
                   settled_profit, last_sweep>>
    /\ UNCHANGED <<dvars, mvars, svars>>

\* execute_real_trade: the two orders built and their place_order calls joined;
\* either may fail, which is only logged (trader.rs:347-387)
XOrders(t) ==
    /\ exec[t].pc = "orders"
    /\ \E eth_ok, btc_ok \in BOOLEAN :
         exec' = [exec EXCEPT ![t].pc = "lock",
                              ![t].orders = buy_orders(Unwrap(exec[t].opp),
                                                       exec[t].position_size),
                              ![t].results = <<eth_ok, btc_ok>>]
    /\ UNCHANGED <<now, status, simulation_mode, total_profit, trades_executed,
                   pending_trades, market_cache, pending_lock, sw, contributed, ledger,
                   settled_profit, last_sweep>>
    /\ UNCHANGED <<dvars, mvars, svars>>

\* pending_trades.lock().await and pending.get_mut(&trade_key) (trader.rs:302-305)
XLookup(t) ==
    /\ exec[t].pc = "lock"
    /\ pending_lock = None
    /\ LET k == KeyOf(Unwrap(exec[t].opp))
       IN  exec' = [exec EXCEPT ![t].pc = "mutate",
                                ![t].seen = IF k \in DOMAIN pending_trades
                                            THEN Some(pending_trades[k]) ELSE None]
    /\ pending_lock' = guard_after_lookup(t)
    /\ UNCHANGED <<now, status, simulation_mode, total_profit, trades_executed,
                   pending_trades, market_cache, sw, contributed, ledger,
                   settled_profit, last_sweep>>
    /\ UNCHANGED <<dvars, mvars, svars>>

\* the accumulate-or-insert branch and drop(pending) (trader.rs:305-324)
XMutate(t) ==
    /\ exec[t].pc = "mutate"
    /\ LET o == Unwrap(exec[t].opp)
           k == KeyOf(o)
           u == exec[t].units
           z == exec[t].position_size
       IN  /\ pending_trades' =
                 Put(pending_trades, k,
                     IF IsSome(exec[t].seen)
                     THEN accumulate(Unwrap(exec[t].seen), u, z)
                     ELSE new_pending_trade(o, u, z, now))
           /\ contributed' =
                 Put(contributed, k,
                     IF k \in DOMAIN contributed
                     THEN [units |-> contributed[k].units + u,
                           investment_amount |-> contributed[k].investment_amount + z,
                           orders |-> contributed[k].orders \o exec[t].orders]
                     ELSE [units |-> u, investment_amount |-> z,
                           orders |-> exec[t].orders])
           /\ ledger' = Put(ledger, k,
                            IF k \in DOMAIN ledger THEN Append(ledger[k], o) ELSE <<o>>)
    /\ pending_lock' = IF pending_lock = Some(t) THEN None ELSE pending_lock
    /\ exec' = [exec EXCEPT ![t].pc = "count", ![t].seen = None, ![t].results = <<>>]
    /\ UNCHANGED <<now, status, simulation_mode, total_profit, trades_executed,
                   market_cache, sw, settled_profit, last_sweep>>
    /\ UNCHANGED <<dvars, mvars, svars>>

\* a count kept of simulated trades only: a live trade is not counted
XCount_simulated_only(t) ==
    /\ exec[t].pc = "count"
    /\ trades_executed' = IF simulation_mode THEN trades_executed + 1
                          ELSE trades_executed
    /\ exec' = [exec EXCEPT ![t] = ExecIdle]
    /\ UNCHANGED <<now, status, simulation_mode, total_profit, pending_trades,
                   market_cache, pending_lock, sw, contributed, ledger,
                   settled_profit, last_sweep>>
    /\ UNCHANGED <<dvars, mvars, svars>>

\* trades_executed += 1 and return Ok (trader.rs:326-338)
XCount(t) ==
    /\ exec[t].pc = "count"
    /\ trades_executed' = trades_executed + 1
    /\ exec' = [exec EXCEPT ![t] = ExecIdle]
    /\ UNCHANGED <<now, status, simulation_mode, total_profit, pending_trades,
                   market_cache, pending_lock, sw, contributed, ledger,
                   settled_profit, last_sweep>>
    /\ UNCHANGED <<dvars, mvars, svars>>

\* check_pending_trades entry: pending_trades.lock().await, held to the end of the
\* call (trader.rs:43-53); the loop then visits the map's entries in any order.
\* The call is made by a periodic timer: once per clock instant.
SwStart(t) ==
    /\ sw[t].pc = "idle"
    /\ IF IsSome(last_sweep) THEN Unwrap(last_sweep) < now ELSE TRUE
    /\ pending_lock = None
    /\ pending_lock' = Some(t)
    /\ sw' = [sw EXCEPT ![t] = [SwIdle EXCEPT !.pc = "iter",
                                              !.todo = DOMAIN pending_trades]]
    /\ last_sweep' = Some(now)
    /\ UNCHANGED <<now, status, simulation_mode, total_profit, trades_executed,
                   pending_trades, market_cache, exec, contributed, ledger, settled_profit>>
    /\ UNCHANGED <<dvars, mvars, svars>>

\* "if age < min_age { continue; }" (trader.rs:55-62)
SwSkip(t, k) ==
    /\ sw[t].pc = "iter"
    /\ k \in sw[t].todo
    /\ now - pending_trades[k].timestamp < min_age
    /\ sw' = [sw EXCEPT ![t].todo = @ \ {k}]
    /\ UNCHANGED <<now, status, simulation_mode, total_profit, trades_executed,
                   pending_trades, market_cache, pending_lock, exec, contributed, ledger,
                   settled_profit, last_sweep>>
    /\ UNCHANGED <<dvars, mvars, svars>>

\* a sweep that looks up an entry whatever its age
SwPick_any_age(t, k) ==
    /\ sw[t].pc = "iter"
    /\ k \in sw[t].todo
    /\ sw' = [sw EXCEPT ![t].pc = "lookup_eth", ![t].cur = k]
    /\ UNCHANGED <<now, status, simulation_mode, total_profit, trades_executed,
                   pending_trades, market_cache, pending_lock, exec, contributed, ledger,
                   settled_profit, last_sweep>>
    /\ UNCHANGED <<dvars, mvars, svars>>

\* an entry old enough: on to the ETH leg's look-up (trader.rs:64-68)
SwPick(t, k) ==
    /\ sw[t].pc = "iter"
    /\ k \in sw[t].todo
    /\ now - pending_trades[k].timestamp >= min_age
    /\ sw' = [sw EXCEPT ![t].pc = "lookup_eth", ![t].cur = k]
    /\ UNCHANGED <<now, status, simulation_mode, total_profit, trades_executed,
                   pending_trades, market_cache, pending_lock, exec, contributed, ledger,
                   settled_profit, last_sweep>>
    /\ UNCHANGED <<dvars, mvars, svars>>

LegOf(t) == IF sw[t].pc \in {"lookup_eth", "net_eth"} THEN "eth" ELSE "btc"
LegCid(t) == IF LegOf(t) = "eth" THEN pending_trades[sw[t].cur].eth_condition_id
             ELSE pending_trades[sw[t].cur].btc_condition_id
LegToken(t) == IF LegOf(t) = "eth" THEN pending_trades[sw[t].cur].eth_token_id
               ELSE pending_trades[sw[t].cur].btc_token_id

\* a cache whose entries never expire
cache_fresh_if_present(cid) == cid \in DOMAIN market_cache

\* the cache entry answers: present and younger than cache_ttl (trader.rs:118-119)
cache_fresh(cid) ==
    cid \in DOMAIN market_cache /\ now - market_cache[cid].cached_at < cache_ttl

\* check_market_result_cached returned r for the current leg (trader.rs:68-69)
Answered(t, r) ==
    IF LegOf(t) = "eth"
    THEN [sw EXCEPT ![t].pc = "lookup_btc", ![t].eth = r]
    ELSE [sw EXCEPT ![t].pc = "log", ![t].btc = r,
                    ![t].reported = Put(@, sw[t].cur, <<sw[t].eth[1], r[1]>>)]

\* check_market_result_cached, answered from the cache (trader.rs:115-134)
SwCacheHit(t) ==
    /\ sw[t].pc \in {"lookup_eth", "lookup_btc"}
    /\ cache_fresh(LegCid(t))
    /\ sw' = Answered(t, market_result(market_cache[LegCid(t)].market, LegToken(t)))
    /\ UNCHANGED <<now, status, simulation_mode, total_profit, trades_executed,
                   pending_trades, market_cache, pending_lock, exec, contributed, ledger,
                   settled_profit, last_sweep>>
    /\ UNCHANGED <<dvars, mvars, svars>>

\* cache miss or expired: drop(cache), then get_market is awaited (trader.rs:136-138)
SwCacheMiss(t) ==
    /\ sw[t].pc \in {"lookup_eth", "lookup_btc"}
    /\ ~cache_fresh(LegCid(t))
    /\ sw' = [sw EXCEPT ![t].pc = IF LegOf(t) = "eth" THEN "net_eth" ELSE "net_btc"]
    /\ UNCHANGED <<now, status, simulation_mode, total_profit, trades_executed,
                   pending_trades, market_cache, pending_lock, exec, contributed, ledger,
                   settled_profit, last_sweep>>
    /\ UNCHANGED <<dvars, mvars, svars>>

\* get_market returned Ok: cache insert, then the answer (trader.rs:139-158)
SwNetOk(t) ==
    /\ sw[t].pc \in {"net_eth", "net_btc"}
    /\ LET cid == LegCid(t)
           market == MarketDetails(cid, status[cid])
       IN  /\ market_cache' = Put(market_cache, cid,
                                  [market |-> market, cached_at |-> now])
           /\ sw' = Answered(t, market_result(market, LegToken(t)))
    /\ UNCHANGED <<now, status, simulation_mode, total_profit, trades_executed,
                   pending_trades, pending_lock, exec, contributed, ledger,
                   settled_profit, last_sweep>>
    /\ UNCHANGED <<dvars, mvars, svars>>

\* a failed get_market taken for a closed market won by the token
SwNetErr_as_closed(t) ==
    /\ sw[t].pc \in {"net_eth", "net_btc"}
    /\ sw' = [Answered(t, <<TRUE, TRUE>>) EXCEPT ![t].net_failed = @ \cup {sw[t].cur}]
    /\ UNCHANGED <<now, status, simulation_mode, total_profit, trades_executed,
                   pending_trades, market_cache, pending_lock, exec, contributed, ledger,
                   settled_profit, last_sweep>>
    /\ UNCHANGED <<dvars, mvars, svars>>

\* get_market returned Err: (false, false), cache untouched (trader.rs:159-162);
\* net_failed remembers the positions of this sweep that met a failure
SwNetErr(t) ==
    /\ sw[t].pc \in {"net_eth", "net_btc"}
    /\ sw' = [Answered(t, <<FALSE, FALSE>>) EXCEPT ![t].net_failed = @ \cup {sw[t].cur}]
    /\ UNCHANGED <<now, status, simulation_mode, total_profit, trades_executed,
                   pending_trades, market_cache, pending_lock, exec, contributed, ledger,
                   settled_profit, last_sweep>>
    /\ UNCHANGED <<dvars, mvars, svars>>

\* whether the log lines' slices [..16] are in range (trader.rs:71-74)
prefix_ok(trade) ==
    /\ Len(trade.eth_condition_id) >= id_prefix_len
    /\ Len(trade.btc_condition_id) >= id_prefix_len

\* a slice out of range panics: the call unwinds, the guard is dropped, to_remove is lost
SwPanic(t) ==
    /\ sw[t].pc = "log"
    /\ ~prefix_ok(pending_trades[sw[t].cur])
    /\ pending_lock' = None
    /\ sw' = [sw EXCEPT ![t] = SwIdle]
    /\ UNCHANGED <<now, status, simulation_mode, total_profit, trades_executed,
                   pending_trades, market_cache, exec, contributed, ledger,
                   settled_profit, last_sweep>>
    /\ UNCHANGED <<dvars, mvars, svars>>

\* "Markets not both closed yet": the entry is left alone (trader.rs:99-102)
SwNotClosed(t) ==
    /\ sw[t].pc = "log"
    /\ prefix_ok(pending_trades[sw[t].cur])
    /\ ~(sw[t].eth[1] /\ sw[t].btc[1])
    /\ sw' = [sw EXCEPT ![t].pc = "iter", ![t].todo = @ \ {sw[t].cur}]
    /\ UNCHANGED <<now, status, simulation_mode, total_profit, trades_executed,
                   pending_trades, market_cache, pending_lock, exec, contributed, ledger,
                   settled_profit, last_sweep>>
    /\ UNCHANGED <<dvars, mvars, svars>>

\* both closed: outside simulation mode sell_winning_tokens runs first and awaits
\* place_order for each winning leg (trader.rs:76-81, 172, 182, 192, 202)
SwClosed(t) ==
    /\ sw[t].pc = "log"
    /\ prefix_ok(pending_trades[sw[t].cur])
    /\ sw[t].eth[1] /\ sw[t].btc[1]
    /\ sw' = [sw EXCEPT ![t].pc = IF simulation_mode THEN "settle"
                                  ELSE IF sw[t].eth[2] THEN "sell_eth"
                                  ELSE IF sw[t].btc[2] THEN "sell_btc"
                                  ELSE "settle"]
    /\ UNCHANGED <<now, status, simulation_mode, total_profit, trades_executed,
                   pending_trades, market_cache, pending_lock, exec, contributed, ledger,
                   settled_profit, last_sweep>>
    /\ UNCHANGED <<dvars, mvars, svars>>

\* a place_order of sell_winning_tokens returned, accepted or failed (trader.rs:182-209);
\* sold keeps the orders this sweep has submitted, by position
SwSold(t) ==
    /\ sw[t].pc \in {"sell_eth", "sell_btc"}
    /\ \E accepted \in BOOLEAN :
         sw' = [sw EXCEPT ![t].pc = IF sw[t].pc = "sell_eth" /\ sw[t].btc[2]
                                    THEN "sell_btc" ELSE "settle",
                          ![t].sold = Put(@, sw[t].cur,
                              Append(IF sw[t].cur \in DOMAIN @ THEN @[sw[t].cur] ELSE <<>>,
                                     sell_order(pending_trades[sw[t].cur],
                                                IF sw[t].pc = "sell_eth" THEN "eth"
                                                ELSE "btc")))]
    /\ UNCHANGED <<now, status, simulation_mode, total_profit, trades_executed,
                   pending_trades, market_cache, pending_lock, exec, contributed, ledger,
                   settled_profit, last_sweep>>
    /\ UNCHANGED <<dvars, mvars, svars>>

\* actual profit added to the total, key pushed to to_remove (trader.rs:83-98)
SwSettle(t) ==
    /\ sw[t].pc = "settle"
    /\ total_profit' = total_profit +
            calculate_actual_profit(pending_trades[sw[t].cur], sw[t].eth[2], sw[t].btc[2])
    /\ sw' = [sw EXCEPT ![t].pc = "iter", ![t].todo = @ \ {sw[t].cur},
                        ![t].to_remove = @ \cup {sw[t].cur}]
    /\ UNCHANGED <<now, status, simulation_mode, trades_executed,
                   pending_trades, market_cache, pending_lock, exec, contributed, ledger,
                   settled_profit, last_sweep>>
    /\ UNCHANGED <<dvars, mvars, svars>>

\* whether the market of a token has resolved in the token's favour
Won(cid, token_id) == status[cid] = (IF token_id[2] = "UP" THEN "up" ELSE "down")

\* the profit of the positions in keys, each by its units, its investment and the
\* outcome of its two markets
RECURSIVE ProfitOfRemoved(_)
ProfitOfRemoved(keys) ==
    IF keys = {} THEN 0
    ELSE LET k == CHOOSE x \in keys : TRUE
             trade == pending_trades[k]
         IN  calculate_actual_profit(trade,
                                     Won(trade.eth_condition_id, trade.eth_token_id),
                                     Won(trade.btc_condition_id, trade.btc_token_id))
             + ProfitOfRemoved(keys \ {k})

\* loop over: remove the keys of to_remove, drop the guard, return Ok (trader.rs:105-109)
SwFinish(t) ==
    /\ sw[t].pc = "iter"
    /\ sw[t].todo = {}
    /\ pending_trades' = Restrict(pending_trades, DOMAIN pending_trades \ sw[t].to_remove)
    /\ contributed' = Restrict(contributed, DOMAIN contributed \ sw[t].to_remove)
    /\ ledger' = Restrict(ledger, DOMAIN ledger \ sw[t].to_remove)
    /\ settled_profit' = settled_profit + ProfitOfRemoved(sw[t].to_remove)
    /\ pending_lock' = None
    /\ sw' = [sw EXCEPT ![t] = SwIdle]
    /\ UNCHANGED <<now, status, simulation_mode, total_profit, trades_executed,
                   market_cache, exec, last_sweep>>
    /\ UNCHANGED <<dvars, mvars, svars>>

\* Price Source: a market resolves, for good, with one winning outcome
CloseMarket(cid, winner) ==
    /\ status[cid] = "open"
    /\ status' = [status EXCEPT ![cid] = winner]
    /\ UNCHANGED <<now, simulation_mode, total_profit, trades_executed, pending_trades,
                   market_cache, pending_lock, exec, sw, contributed, ledger, settled_profit,
           last_sweep>>
    /\ UNCHANGED <<dvars, mvars, svars>>

\* time passes
Tick(d) ==
    /\ d > now
    /\ now' = d
    /\ UNCHANGED <<status, simulation_mode, total_profit, trades_executed, pending_trades,
                   market_cache, pending_lock, exec, sw, contributed, ledger, settled_profit,
           last_sweep>>
    /\ UNCHANGED <<dvars, mvars, svars>>

\* the last instant of TimeGrid
Horizon == CHOOSE d \in TimeGrid : \A e \in TimeGrid : e <= d

\* an Instant moved back by d, no further than the origin
Earlier(instant, d) == IF instant - d > 0 THEN instant - d ELSE 0

\* time passes beyond the last instant of TimeGrid: another min_age goes by.  An
\* Instant is only ever read through elapsed() (trader.rs:55, 119), so the clock is
\* left at Horizon and the recorded instants are moved back instead; every cache
\* entry is then older than cache_ttl and every position older than min_age
Elapse ==
    /\ now = Horizon
    /\ pending_trades' = [k \in DOMAIN pending_trades |->
            [pending_trades[k] EXCEPT !.timestamp = Earlier(@, min_age)]]
    /\ market_cache' = [c \in DOMAIN market_cache |->
            [market_cache[c] EXCEPT !.cached_at = Earlier(@, min_age)]]
    /\ last_sweep' = None
    /\ UNCHANGED <<now, status, simulation_mode, total_profit, trades_executed,
                   pending_lock, exec, sw, contributed, ledger, settled_profit>>
    /\ UNCHANGED <<dvars, mvars, svars>>

\* a get_stats that reports the trade count as zero
GTrades_zeroed ==
    /\ stats.pc = "trades"
    /\ stats' = [stats EXCEPT !.pc = "returned", !.result = Some(<<stats.total, 0>>)]
    /\ UNCHANGED <<dvars, tvars, mvars, sizing>>

\* get_stats, called when the call before it has returned:
\* "let total = *self.total_profit.lock().await" (trader.rs:458)
GTotal ==
    /\ stats.pc \in {"idle", "returned"}
    /\ stats' = [StatsIdle EXCEPT !.pc = "trades", !.total = total_profit]
    /\ UNCHANGED <<dvars, tvars, mvars, sizing>>

\* "let trades = *self.trades_executed.lock().await; (total, trades)" (trader.rs:459-460)
GTrades ==
    /\ stats.pc = "trades"
    /\ stats' = [stats EXCEPT !.pc = "returned",
                              !.result = Some(<<stats.total, trades_executed>>)]
    /\ UNCHANGED <<dvars, tvars, mvars, sizing>>

\* The Tracker with its sweep: one execute_arbitrage caller, the sweeper, the markets
\* resolving and time passing.
TraderNext ==
    \/ \E o \in SweepOpps : XStart("x1", o)
    \/ XOrders("x1")
    \/ XLookup("x1")
    \/ XMutate("x1")
    \/ XCount("x1")
    \/ \E t \in Sweepers : SwStart(t)
    \/ \E t \in Sweepers : \E k \in sw[t].todo : SwSkip(t, k)
    \/ \E t \in Sweepers : \E k \in sw[t].todo : SwPick(t, k)
    \/ \E t \in Sweepers : SwCacheHit(t)
    \/ \E t \in Sweepers : SwCacheMiss(t)
    \/ \E t \in Sweepers : SwNetOk(t)
    \/ \E t \in Sweepers : SwNetErr(t)
    \/ \E t \in Sweepers : SwPanic(t)
    \/ \E t \in Sweepers : SwNotClosed(t)
    \/ \E t \in Sweepers : SwClosed(t)
    \/ \E t \in Sweepers : SwSold(t)
    \/ \E t \in Sweepers : SwSettle(t)
    \/ \E t \in Sweepers : SwFinish(t)
    \/ \E r \in Resolutions : CloseMarket(r[1], r[2])
    \/ \E d \in TimeGrid : Tick(d)

\* Concurrent execute_arbitrage callers alone (no sweep in between).
ExecNext ==
    \/ \E t \in Executors : \E o \in TraderOpps : XStart(t, o)
    \/ \E t \in Executors : XOrders(t)
    \/ \E t \in Executors : XLookup(t)
    \/ \E t \in Executors : XMutate(t)
    \/ \E t \in Executors : XCount(t)
    \/ \E d \in TimeGrid : Tick(d)

\* the outcome each market resolves with
LiveResolutions == {<<E1, "up">>, <<B1, "up">>, <<E2, "up">>}

\* The Tracker with the statistics read while it runs: one execute_arbitrage
\* caller, the sweeper, a get_stats caller, the markets resolving and time passing.
\* the opportunities of one market pair, and the outcome each of its markets resolves with
StatsOpps == {o \in SweepOpps : o.eth_condition_id = E1}
StatsResolutions == {<<E1, "up">>, <<B1, "up">>}
StatsNext ==
    \/ \E o \in StatsOpps : XStart("x1", o)
    \/ XOrders("x1")
    \/ XLookup("x1")
    \/ XMutate("x1")
    \/ XCount("x1")
    \/ \E t \in Sweepers : SwStart(t)
    \/ \E t \in Sweepers : \E k \in sw[t].todo : SwSkip(t, k)
    \/ \E t \in Sweepers : \E k \in sw[t].todo : SwPick(t, k)
    \/ \E t \in Sweepers : SwCacheHit(t)
    \/ \E t \in Sweepers : SwCacheMiss(t)
    \/ \E t \in Sweepers : SwNetOk(t)
    \/ \E t \in Sweepers : SwNetErr(t)
    \/ \E t \in Sweepers : SwNotClosed(t)
    \/ \E t \in Sweepers : SwClosed(t)
    \/ \E t \in Sweepers : SwSold(t)
    \/ \E t \in Sweepers : SwSettle(t)
    \/ \E t \in Sweepers : SwFinish(t)
    \/ GTotal
    \/ GTrades
    \/ \E r \in StatsResolutions : CloseMarket(r[1], r[2])
    \/ \E d \in TimeGrid : Tick(d)

\* The sweep on its timer for as long as the process runs: the opportunities of one
\* caller, the sweeper, the markets resolving and time passing without end.
LiveOpps == SweepOpps
\* the positions pending are those of one market pair, the pair of opportunity o
OnePairPending(o) ==
    DOMAIN pending_trades \subseteq {trade_key(o.eth_condition_id, o.btc_condition_id)}

\* an opportunity of the pair that is being traded reaches execute_arbitrage
LiveStart(t) == \E o \in LiveOpps : OnePairPending(o) /\ XStart(t, o)

LiveNext ==
    \/ LiveStart("x1")
    \/ XOrders("x1")
    \/ XLookup("x1")
    \/ XMutate("x1")
    \/ XCount("x1")
    \/ \E t \in Sweepers : SwStart(t)
    \/ \E t \in Sweepers : \E k \in sw[t].todo : SwSkip(t, k)
    \/ \E t \in Sweepers : \E k \in sw[t].todo : SwPick(t, k)
    \/ \E t \in Sweepers : SwCacheHit(t)
    \/ \E t \in Sweepers : SwCacheMiss(t)
    \/ \E t \in Sweepers : SwNetOk(t)
    \/ \E t \in Sweepers : SwNetErr(t)
    \/ \E t \in Sweepers : SwPanic(t)
    \/ \E t \in Sweepers : SwNotClosed(t)
    \/ \E t \in Sweepers : SwClosed(t)
    \/ \E t \in Sweepers : SwSold(t)
    \/ \E t \in Sweepers : SwSettle(t)
    \/ \E t \in Sweepers : SwFinish(t)
    \/ \E r \in LiveResolutions : CloseMarket(r[1], r[2])
    \/ \E d \in TimeGrid : Tick(d)
    \/ Elapse

\* a step of a check_pending_trades call that has started
SwStep(t) ==
    \/ \E k \in sw[t].todo : SwSkip(t, k)
    \/ \E k \in sw[t].todo : SwPick(t, k)
    \/ SwCacheHit(t)
    \/ SwCacheMiss(t)
    \/ SwNetOk(t)
    \/ SwNetErr(t)
    \/ SwPanic(t)
    \/ SwNotClosed(t)
    \/ SwClosed(t)
    \/ SwSold(t)
    \/ SwSettle(t)
    \/ SwFinish(t)

\* a step of an execute_arbitrage call that has started
XStep(t) == XOrders(t) \/ XLookup(t) \/ XMutate(t) \/ XCount(t)

\* The scheduling the runtime gives: a started call keeps running, the sweep timer
\* fires again and again and its lock request is served (tokio's Mutex is fair),
\* and time passes.
LiveFairness ==
    /\ \A t \in Sweepers : SF_vars(SwStart(t))
    /\ \A t \in Sweepers : WF_vars(SwStep(t))
    /\ WF_vars(XStep("x1"))
    /\ WF_vars(\E d \in TimeGrid : Tick(d))
    /\ WF_vars(Elapse)

(***************************************************************************)
(* Tracker: accumulation under concurrency                                 *)
(***************************************************************************)
\* C3: under any interleaving of concurrent execute_arbitrage calls the map
\* holds one PendingTrade per key, whose units and investment are the sums
\* contributed by the calls that have gone through their look-up-then-mutate
\* step; that step is never run by two calls at once.
C3_OneTradePerKeyNoLostUpdate ==
    /\ Cardinality({t \in Executors : exec[t].pc = "mutate"}) <= 1
    /\ DOMAIN pending_trades = DOMAIN contributed
    /\ \A k \in DOMAIN pending_trades :
          /\ pending_trades[k].units = contributed[k].units
          /\ pending_trades[k].investment_amount = contributed[k].investment_amount

\* two calls for the same key overlapped and both have mutated the map
C3_Witness ==
    /\ exec["x1"].pc = "count" /\ exec["x2"].pc = "count"
    /\ KeyOf(Unwrap(exec["x1"].opp)) = KeyOf(Unwrap(exec["x2"].opp))
    /\ pending_trades[KeyOf(Unwrap(exec["x1"].opp))].units
           = exec["x1"].units + exec["x2"].units
    /\ pending_trades[KeyOf(Unwrap(exec["x1"].opp))].investment_amount
           = exec["x1"].position_size + exec["x2"].position_size

RECURSIVE SumOfUnits(_)
SumOfUnits(opps) ==
    IF opps = <<>> THEN 0
    ELSE units_for(Head(opps), calculate_position_size(Head(opps))) + SumOfUnits(Tail(opps))

RECURSIVE SumOfSizes(_)
SumOfSizes(opps) ==
    IF opps = <<>> THEN 0
    ELSE calculate_position_size(Head(opps)) + SumOfSizes(Tail(opps))

\* C4: accumulation law.  The PendingTrade of a condition-id pair holds the sum
\* of the units and of the position sizes computed individually for each
\* opportunity executed for that pair; the first call for a pair creates the
\* trade with exactly its own units and investment.
C4_AccumulationLaw ==
    /\ DOMAIN pending_trades = DOMAIN ledger
    /\ \A k \in DOMAIN pending_trades :
          /\ pending_trades[k].units = SumOfUnits(ledger[k])
          /\ pending_trades[k].investment_amount = SumOfSizes(ledger[k])
          /\ Len(ledger[k]) = 1 =>
                /\ pending_trades[k].units =
                       FDiv(calculate_position_size(ledger[k][1]),
                            FromDecimal(ledger[k][1].total_cost))
                /\ pending_trades[k].investment_amount =
                       calculate_position_size(ledger[k][1])

\* two opportunities of different cost executed for one pair, both calls returned
C4_Witness ==
    /\ \A t \in Executors : exec[t].pc = "idle"
    /\ \E k \in DOMAIN ledger :
          /\ Len(ledger[k]) = 2
          /\ ledger[k][1].total_cost # ledger[k][2].total_cost
          /\ pending_trades[k].units = 100000 + 83333
          /\ pending_trades[k].investment_amount = 75000 + 75000

\* C15: in live mode execute_arbitrage submits exactly two BUY orders, one per
\* leg at the quoted ask, and whether neither, one or both placements fail it
\* goes on to record or accumulate the position as if both had filled, counts
\* the trade and returns.
C15_LiveTradeRecordedWhateverOrdersDo ==
    [][\A t \in Executors :
          ~simulation_mode =>
             /\ (exec'[t].pc \in {"lock", "mutate", "count"}) =>
                   LET o == Unwrap(exec'[t].opp)
                       placed == exec'[t].orders
                   IN  /\ Len(placed) = 2
                       /\ placed[1].side = "BUY" /\ placed[2].side = "BUY"
                       /\ placed[1].token_id = o.eth_up_token_id
                       /\ placed[1].price = o.eth_up_price
                       /\ placed[2].token_id = o.btc_down_token_id
                       /\ placed[2].price = o.btc_down_price
             /\ (exec[t].pc = "orders" /\ exec'[t] # exec[t]) => exec'[t].pc = "lock"
             /\ (exec[t].pc = "mutate" /\ exec'[t] # exec[t]) =>
                   LET o == Unwrap(exec[t].opp)
                       k == o.eth_condition_id \o "_" \o o.btc_condition_id
                       size == calculate_position_size(o)
                       had == k \in DOMAIN pending_trades
                   IN  /\ k \in DOMAIN pending_trades'
                       /\ pending_trades'[k].units =
                            (IF had THEN pending_trades[k].units ELSE 0)
                               + FDiv(size, FromDecimal(o.total_cost))
                       /\ pending_trades'[k].investment_amount =
                            (IF had THEN pending_trades[k].investment_amount ELSE 0) + size
             /\ (exec[t].pc = "count" /\ exec'[t] # exec[t]) =>
                   /\ trades_executed' = trades_executed + 1
                   /\ exec'[t].pc = "idle"
      ]_vars

\* a live trade whose two placements both failed holds the map lock and is
\* about to be accumulated into the position of an earlier trade
C15_Witness ==
    /\ ~simulation_mode
    /\ \E t \in Executors :
          /\ exec[t].pc = "mutate"
          /\ exec[t].results = <<FALSE, FALSE>>
          /\ Len(exec[t].orders) = 2
          /\ IsSome(exec[t].seen)
          /\ Unwrap(exec[t].seen).units = 100000
          /\ exec[t].units = 83333

(***************************************************************************)
(* Tracker: the sweep                                                      *)
(***************************************************************************)
\* C5: no network operation is performed while a lock on shared state is
\* held: a task awaiting get_market or place_order holds no lock.
C5_NoLockAcrossNetworkCall ==
    /\ \A t \in Sweepers :
          sw[t].pc \in {"net_eth", "net_btc", "sell_eth", "sell_btc"}
              => pending_lock # Some(t)
    /\ \A t \in Executors : exec[t].pc = "orders" => pending_lock # Some(t)

\* payout of a settled position as the payoff structure gives it
PayoutOf(units, eth_winner, btc_winner) ==
    IF eth_winner /\ btc_winner THEN 2 * units
    ELSE IF eth_winner \/ btc_winner THEN units
    ELSE 0

\* C9: when the sweep finds both legs of a position closed, total profit
\* increases by exactly payout - investment (payout 2 x units, 1 x units or 0),
\* and total profit changes in no other way.
C9_SettleAddsPayoutMinusInvestment ==
    [][\A t \in Sweepers :
          /\ (sw[t].pc = "log" /\ sw[t].eth[1] /\ sw[t].btc[1] /\ sw'[t] # sw[t])
                => sw'[t].pc \in {"settle", "sell_eth", "sell_btc"}
          /\ (sw[t].pc = "settle" /\ sw'[t] # sw[t])
                => total_profit' = total_profit
                       + PayoutOf(pending_trades[sw[t].cur].units, sw[t].eth[2], sw[t].btc[2])
                       - pending_trades[sw[t].cur].investment_amount
          /\ (sw[t].pc # "settle" => total_profit' = total_profit)
      ]_vars

\* C10: a swept position is removed from the pending map if and only if both
\* of its legs reported closed in that sweep; when they did not, the position
\* and the running total profit are unchanged by the sweep.
C10_RemovedIffBothClosed ==
    [][\A t \in Sweepers :
          sw[t].pc # "idle" =>
            /\ (sw'[t].pc # "idle" => pending_trades' = pending_trades)
            /\ (sw'[t].pc = "idle" =>
                  \A k \in DOMAIN sw[t].reported :
                     LET both == sw[t].reported[k][1] /\ sw[t].reported[k][2]
                     IN  /\ (k \notin DOMAIN pending_trades') <=> both
                         /\ ~both => pending_trades'[k] = pending_trades[k])
            /\ (total_profit' # total_profit => sw[t].eth[1] /\ sw[t].btc[1])
      ]_vars


\* C11: a pending position younger than 14 minutes is never checked by the
\* sweep: no step of the sweep makes it the position being looked up, it stays
\* in the map unchanged and total profit does not change on its account, also
\* when both of its markets are already closed.
C11_YoungPositionNotChecked ==
    [][\A t \in Sweepers : \A k \in DOMAIN pending_trades :
          (sw'[t] # sw[t] /\ now - pending_trades[k].timestamp < 14 * 60) =>
             /\ (sw'[t].pc \notin {"idle", "iter"} => sw'[t].cur # k)
             /\ k \in DOMAIN pending_trades'
             /\ pending_trades'[k] = pending_trades[k]
             /\ (total_profit' # total_profit => sw[t].cur # k)
             /\ k \notin DOMAIN sw'[t].reported
      ]_vars

\* the sweep has passed over a young position whose two markets are closed
C11_Witness ==
    \E t \in Sweepers : \E k \in DOMAIN pending_trades :
        /\ sw[t].pc = "iter"
        /\ k \notin sw[t].todo
        /\ k \notin DOMAIN sw[t].reported
        /\ now - pending_trades[k].timestamp < 14 * 60
        /\ status[pending_trades[k].eth_condition_id] # "open"
        /\ status[pending_trades[k].btc_condition_id] # "open"

\* the condition id and token the sweep's current look-up is about
LookupCid(t) ==
    IF sw[t].pc \in {"lookup_eth", "net_eth"}
    THEN pending_trades[sw[t].cur].eth_condition_id
    ELSE pending_trades[sw[t].cur].btc_condition_id
LookupToken(t) ==
    IF sw[t].pc \in {"lookup_eth", "net_eth"}
    THEN pending_trades[sw[t].cur].eth_token_id
    ELSE pending_trades[sw[t].cur].btc_token_id
\* the answer the look-up gave, read off the sweep's next state
LookupAnswer(t) ==
    IF sw[t].pc \in {"lookup_eth", "net_eth"} THEN sw'[t].eth ELSE sw'[t].btc
\* (closed, winner) as one MarketDetails gives it for a token
AnswerFrom(market, token_id) ==
    IF market.closed
    THEN <<TRUE, \E i \in DOMAIN market.tokens :
                    /\ market.tokens[i].token_id = token_id
                    /\ market.tokens[i].winner>>
    ELSE <<FALSE, FALSE>>

\* C12: a market-status look-up made less than 60 seconds after the cache
\* entry of its condition id was fetched issues no get_market query, leaves the
\* cache alone and answers from the entry; one made 60 seconds or more after
\* (or with no entry) issues a get_market query which, on success, replaces the
\* entry with the fresh metadata stamped with the current instant.
C12_CacheReusedThenRefetched ==
    [][\A t \in Sweepers :
          /\ (sw[t].pc \in {"lookup_eth", "lookup_btc"} /\ sw'[t] # sw[t]) =>
                LET cid == LookupCid(t)
                IN  IF cid \in DOMAIN market_cache /\ now - market_cache[cid].cached_at < 60
                    THEN /\ sw'[t].pc \notin {"net_eth", "net_btc"}
                         /\ market_cache' = market_cache
                         /\ LookupAnswer(t) = AnswerFrom(market_cache[cid].market, LookupToken(t))
                    ELSE /\ sw'[t].pc \in {"net_eth", "net_btc"}
                         /\ market_cache' = market_cache
          /\ (sw[t].pc \in {"net_eth", "net_btc"} /\ sw'[t] # sw[t]) =>
                LET cid == LookupCid(t)
                IN  \/ market_cache' = market_cache
                    \/ /\ DOMAIN market_cache' = DOMAIN market_cache \cup {cid}
                       /\ \A c \in DOMAIN market_cache \ {cid} :
                             market_cache'[c] = market_cache[c]
                       /\ market_cache'[cid].cached_at = now
                       /\ market_cache'[cid].market.closed = (status[cid] # "open")
                       /\ LookupAnswer(t) = AnswerFrom(market_cache'[cid].market, LookupToken(t))
          /\ (sw[t].pc \notin {"net_eth", "net_btc"} => market_cache' = market_cache)
      ]_vars

\* a look-up of a condition id whose entry was fetched 60 seconds ago has gone
\* to the network, the market having closed since the entry was stored
C12_Witness ==
    \E t \in Sweepers :
        /\ sw[t].pc = "net_eth"
        /\ LookupCid(t) \in DOMAIN market_cache
        /\ now - market_cache[LookupCid(t)].cached_at = 60
        /\ ~market_cache[LookupCid(t)].market.closed
        /\ status[LookupCid(t)] # "open"

\* C13: when get_market fails inside the cached look-up, the look-up answers
\* (closed = false, winner = false) and the sweep goes on, the cache is left
\* unchanged, and the position stays pending, unchanged, with total profit
\* unchanged, for a later sweep to retry.
C13_FailedQueryLeavesPositionPending ==
    [][\A t \in Sweepers :
          /\ (sw'[t].net_failed \ sw[t].net_failed # {}) =>
                /\ sw[t].pc \in {"net_eth", "net_btc"}
                /\ sw'[t].net_failed \ sw[t].net_failed = {sw[t].cur}
                /\ LookupAnswer(t) = <<FALSE, FALSE>>
                /\ sw'[t].pc \in {"lookup_btc", "log"}
                /\ market_cache' = market_cache
                /\ pending_trades' = pending_trades
                /\ total_profit' = total_profit
          /\ \A k \in sw[t].net_failed :
                /\ k \in DOMAIN pending_trades'
                /\ pending_trades'[k] = pending_trades[k]
                /\ (sw[t].cur = k => total_profit' = total_profit)
                /\ k \notin sw'[t].to_remove
      ]_vars

\* a sweep is over the position whose markets are both closed, a query for it
\* having failed: the position is still pending and nothing was booked
C13_Witness ==
    \E t \in Sweepers : \E k \in sw[t].net_failed :
        /\ sw[t].pc = "iter" /\ sw[t].todo = {}
        /\ k \in DOMAIN pending_trades
        /\ status[pending_trades[k].eth_condition_id] # "open"
        /\ status[pending_trades[k].btc_condition_id] # "open"
        /\ total_profit = 0
        /\ last_sweep = Some(900)

\* C14: no Tracker operation aborts: every check_pending_trades call ends by
\* returning after its removal loop and every execute_arbitrage call ends by
\* returning after it counted the trade, whatever the condition ids of the
\* positions and whatever fails at the Price Source.
C14_TrackerCallsReturnNormally ==
    [][/\ \A t \in Sweepers :
             (sw[t].pc # "idle" /\ sw'[t].pc = "idle") =>
                 /\ sw[t].pc = "iter" /\ sw[t].todo = {}
                 /\ DOMAIN pending_trades' = DOMAIN pending_trades \ sw[t].to_remove
       /\ \A t \in Executors :
             (exec[t].pc # "idle" /\ exec'[t].pc = "idle") =>
                 /\ exec[t].pc = "count"
                 /\ trades_executed' = trades_executed + 1
      ]_vars

\* the SELL orders the sweep has submitted for position k
SoldFor(sweep, k) == IF k \in DOMAIN sweep.sold THEN sweep.sold[k] ELSE <<>>
\* the order the settlement is to submit for a leg's token
ExpectedSell(token_id, units) ==
    [token_id |-> token_id, side |-> "SELL", size |-> units * 1000, price |-> 100,
     order_type |-> "LIMIT"]
\* whether the market of a token has resolved in the token's favour
WonNow(cid, token_id) == status[cid] = (IF token_id[2] = "UP" THEN "up" ELSE "down")

\* C16: at settlement outside simulation mode one SELL order at price 1.0, of
\* size the position's accumulated units, has been submitted for each winning
\* leg and none for a losing leg; a position leaves the map only after these
\* orders; in simulation mode the sweep submits no order.
C16_SellWinnersBeforeRemoval ==
    [][\A t \in Sweepers :
          /\ simulation_mode => sw'[t].sold = <<>>
          /\ (sw[t].pc = "settle" /\ sw'[t] # sw[t] /\ ~simulation_mode) =>
                LET trade == pending_trades[sw[t].cur]
                IN  SoldFor(sw[t], sw[t].cur) =
                       (IF sw[t].eth[2]
                        THEN <<ExpectedSell(trade.eth_token_id, trade.units)>> ELSE <<>>)
                       \o (IF sw[t].btc[2]
                           THEN <<ExpectedSell(trade.btc_token_id, trade.units)>> ELSE <<>>)
          /\ \A k \in DOMAIN pending_trades \ DOMAIN pending_trades' :
                ~simulation_mode =>
                   LET trade == pending_trades[k]
                   IN  SoldFor(sw[t], k) =
                          (IF WonNow(trade.eth_condition_id, trade.eth_token_id)
                           THEN <<ExpectedSell(trade.eth_token_id, trade.units)>> ELSE <<>>)
                          \o (IF WonNow(trade.btc_condition_id, trade.btc_token_id)
                              THEN <<ExpectedSell(trade.btc_token_id, trade.units)>>
                              ELSE <<>>)
      ]_vars

\* live mode: a position accumulated from two trades is being settled, its ETH
\* leg won and its BTC leg lost, and the one SELL order is out
C16_Witness ==
    /\ ~simulation_mode
    /\ \E t \in Sweepers :
          /\ sw[t].pc = "settle"
          /\ sw[t].eth[2] /\ ~sw[t].btc[2]
          /\ pending_trades[sw[t].cur].units = 200000
          /\ SoldFor(sw[t], sw[t].cur) =
                <<ExpectedSell(TokenId(E1, "UP"), 200000)>>

(***************************************************************************)
(* monitor.rs                                                              *)
(***************************************************************************)
period_secs == 900

\* (current_time / 900) * 900
period_of(t) == (t \div period_secs) * period_secs

\* str::to_uppercase on the letters that occur in outcome labels
UpperChar(c) ==
    CASE c = "u" -> "U" [] c = "p" -> "P" [] c = "d" -> "D" [] c = "o" -> "O"
      [] c = "w" -> "W" [] c = "n" -> "N" [] c = "y" -> "Y" [] c = "e" -> "E"
      [] c = "s" -> "S" [] OTHER -> c
to_uppercase(str) == [i \in DOMAIN str |-> UpperChar(str[i])]

\* str::contains
contains(str, pat) ==
    \E i \in 0..(Len(str) - Len(pat)) : SubSeq(str, i + 1, i + Len(pat)) = pat

\* a classification that compares the label as it was written
classify_as_written(outcome) ==
    IF contains(outcome, <<"U", "P">>) \/ outcome = <<"1">> THEN "up"
    ELSE IF contains(outcome, <<"D", "O", "W", "N">>) \/ outcome = <<"0">> THEN "down"
    ELSE "none"

\* the if / else-if of refresh_market_tokens: "up", "down" or "none"
classify(outcome) ==
    LET outcome_upper == to_uppercase(outcome)
    IN  IF contains(outcome_upper, <<"U", "P">>) \/ outcome_upper = <<"1">> THEN "up"
        ELSE IF contains(outcome_upper, <<"D", "O", "W", "N">>) \/ outcome_upper = <<"0">>
             THEN "down"
        ELSE "none"

\* a refresh test that passes 60 seconds early
should_refresh_early(last_refresh, t) ==
    IF IsSome(last_refresh) THEN t - Unwrap(last_refresh) >= period_secs - 60 ELSE TRUE

\* should_refresh: last_refresh.map(|last| last.elapsed().as_secs() >= 900).unwrap_or(true)
should_refresh(last_refresh, t) ==
    IF IsSome(last_refresh) THEN t - Unwrap(last_refresh) >= period_secs ELSE TRUE

\* an update that leaves the refresh instant as it was
reset_refresh_kept(last_refresh) == last_refresh

\* what update_markets stores in last_market_refresh
reset_refresh(last_refresh) == None

\* a comparison on the period nearest to the clock instead of the one it is in
should_discover_nearest(current_time, stored_period) ==
    ((current_time + period_secs \div 2) \div period_secs) * period_secs # stored_period

\* should_discover_new_markets: current_period != stored_period
should_discover(current_time, stored_period) ==
    period_of(current_time) # stored_period

\* Price Source: get_price, one quote per token and side
Quote(token_id, side) ==
    LET ask == IF token_id[2] = "UP" THEN 70 ELSE 25
    IN  IF side = "BUY" THEN ask ELSE ask - 5

\* a fetch_token_price that wants both sides
fetch_token_price_both_sides(token_id, buy_ok, sell_ok) ==
    IF IsSome(token_id) /\ buy_ok /\ sell_ok
    THEN Some([token_id |-> Unwrap(token_id),
               bid |-> Some(Quote(Unwrap(token_id), "SELL")),
               ask |-> Some(Quote(Unwrap(token_id), "BUY"))])
    ELSE None

\* fetch_token_price: buy_ok / sell_ok say which get_price calls succeeded
fetch_token_price(token_id, buy_ok, sell_ok) ==
    IF ~IsSome(token_id) THEN None
    ELSE LET id == Unwrap(token_id)
             buy_price == IF buy_ok THEN Some(Quote(id, "BUY")) ELSE None
             sell_price == IF sell_ok THEN Some(Quote(id, "SELL")) ELSE None
         IN  IF IsSome(buy_price) \/ IsSome(sell_price)
             THEN Some([token_id |-> id, bid |-> sell_price, ask |-> buy_price])
             ELSE None

\* the get_price calls the four fetch_token_price futures of one poll issue, each
\* with what it returned (Ok(price) as Some, Err as None): BUY then SELL for every
\* slot whose token id is set, none for a slot whose id is not
price_queries(ids, ok) ==
    [q \in {i \in 1..4 : IsSome(ids[i])} \X {"BUY", "SELL"} |->
        IF ok[q[1]][IF q[2] = "BUY" THEN 1 ELSE 2]
        THEN Some(Quote(Unwrap(ids[q[1]]), q[2])) ELSE None]

Fetchers == {"f1"}
MaxUpdates == 1
\* the market pairs update_markets is called with; construction starts on the first
MarketPairs == {<<E1, B1>>, <<E2, B2>>}
\* which get_price calls of one fetch succeed, per slot <<BUY, SELL>>: at most one slot
\* of the four sees a failure
AllOk == [i \in 1..4 |-> <<TRUE, TRUE>>]
PricePatterns ==
    {AllOk} \cup {[AllOk EXCEPT ![i] = o] : i \in 1..4,
                  o \in {<<TRUE, FALSE>>, <<FALSE, TRUE>>, <<FALSE, FALSE>>}}

FetchIdle == [pc |-> "idle", eth_condition_id |-> "", btc_condition_id |-> "",
              tokens |-> <<>>, ids |-> <<>>, queried |-> <<>>,
              clean |-> FALSE, first_after_update |-> FALSE, prev_refresh |-> None,
              should_refresh |-> FALSE, price_queries |-> <<>>, walked |-> <<>>]
UpdIdle == [pc |-> "idle", eth |-> "", btc |-> "", alone |-> FALSE]
DiscIdle == [pc |-> "idle", current_time |-> 0, result |-> None]

\* MarketMonitor::new
MonInit ==
    /\ eth_market = E1
    /\ btc_market = B1
    /\ eth_up_token_id = None
    /\ eth_down_token_id = None
    /\ btc_up_token_id = None
    /\ btc_down_token_id = None
    /\ last_market_refresh = None
    /\ current_period_timestamp = period_of(now)
    /\ fetch = [f \in Fetchers |-> FetchIdle]
    /\ upd = UpdIdle
    /\ updates = 0
    /\ fresh_update = FALSE
    /\ refreshed_at = None
    /\ meta_at = [m \in {"eth", "btc"} |-> None]
    /\ disc = DiscIdle


(***************************************************************************)
(* MarketMonitor tasks.  Every field has its own mutex, taken for one      *)
(* statement, so each action is one lock acquisition or one network call.  *)
(***************************************************************************)
MonOthers == <<tvars, min_profit_threshold, opportunities, detected, svars>>

\* fetch_market_data entry, refresh_market_tokens' should_refresh (monitor.rs:108-117)
FStart(f) ==
    /\ fetch[f].pc = "idle"
    /\ fetch' = [fetch EXCEPT ![f] =
            [FetchIdle EXCEPT
                !.pc = IF should_refresh(last_market_refresh, now) THEN "r_eth_id" ELSE "eth_id",
                !.should_refresh = should_refresh(last_market_refresh, now),
                !.clean = (upd.pc = "idle" /\ updates > 0),
                !.first_after_update = fresh_update,
                !.prev_refresh = refreshed_at]]
    /\ fresh_update' = FALSE
    /\ upd' = [upd EXCEPT !.alone = FALSE]
    /\ UNCHANGED <<eth_market, btc_market, eth_up_token_id, eth_down_token_id,
                   btc_up_token_id, btc_down_token_id, last_market_refresh,
                   current_period_timestamp, disc, updates, refreshed_at, meta_at, snapshot>>
    /\ UNCHANGED MonOthers

\* get_current_condition_ids, first lock: eth_market (monitor.rs:100; called at 120, 160)
FReadEth(f) ==
    /\ fetch[f].pc \in {"r_eth_id", "eth_id"}
    /\ fetch' = [fetch EXCEPT ![f].eth_condition_id = eth_market,
                              ![f].pc = IF fetch[f].pc = "r_eth_id" THEN "r_btc_id"
                                        ELSE "btc_id"]
    /\ UNCHANGED <<eth_market, btc_market, eth_up_token_id, eth_down_token_id,
                   btc_up_token_id, btc_down_token_id, last_market_refresh,
                   current_period_timestamp, disc, upd, updates, fresh_update, refreshed_at, meta_at,
                   snapshot>>
    /\ UNCHANGED MonOthers

\* get_current_condition_ids, second lock: btc_market (monitor.rs:101)
FReadBtc(f) ==
    /\ fetch[f].pc \in {"r_btc_id", "btc_id"}
    /\ fetch' = [fetch EXCEPT ![f].btc_condition_id = btc_market,
                              ![f].pc = IF fetch[f].pc = "r_btc_id" THEN "net_eth"
                                        ELSE "tok"]
    /\ UNCHANGED <<eth_market, btc_market, eth_up_token_id, eth_down_token_id,
                   btc_up_token_id, btc_down_token_id, last_market_refresh,
                   current_period_timestamp, disc, upd, updates, fresh_update, refreshed_at, meta_at,
                   snapshot>>
    /\ UNCHANGED MonOthers

QueriedCid(f) == IF fetch[f].pc = "net_eth" THEN fetch[f].eth_condition_id
                 ELSE fetch[f].btc_condition_id
QueriedSlot(f) == IF fetch[f].pc = "net_eth" THEN "eth" ELSE "btc"
AfterTokens(pc) == IF pc \in {"net_eth", "set_eth"} THEN "net_btc" ELSE "mark"

\* get_market returned Ok with tokens labelled as in outcomes: the tokens are then
\* walked one by one (monitor.rs:123-124, 137-138)
FMarketLabelled(f, outcomes) ==
    /\ fetch[f].pc \in {"net_eth", "net_btc"}
    /\ LET cid == QueriedCid(f)
           toks == MarketDetailsLabelled(cid, status[cid], outcomes).tokens
       IN  fetch' = [fetch EXCEPT
                ![f].tokens = toks,
                ![f].queried = Append(@, cid),
                ![f].pc = IF toks = <<>> THEN AfterTokens(fetch[f].pc)
                          ELSE IF fetch[f].pc = "net_eth" THEN "set_eth" ELSE "set_btc"]
    /\ meta_at' = IF upd.pc = "idle" THEN [meta_at EXCEPT ![QueriedSlot(f)] = Some(now)]
                ELSE meta_at
    /\ UNCHANGED <<eth_market, btc_market, eth_up_token_id, eth_down_token_id,
                   btc_up_token_id, btc_down_token_id, last_market_refresh,
                   current_period_timestamp, disc, upd, updates, fresh_update, refreshed_at,
                   snapshot>>
    /\ UNCHANGED MonOthers

\* get_market returned Ok for an up/down market labelled the usual way
FMarketOk(f) == FMarketLabelled(f, StandardOutcomes)

\* a failed get_market that ends the refresh at once, the instant unrecorded
FMarketErr_returning(f) ==
    /\ fetch[f].pc \in {"net_eth", "net_btc"}
    /\ fetch' = [fetch EXCEPT ![f].queried = Append(@, QueriedCid(f)),
                              ![f].pc = "eth_id"]
    /\ meta_at' = IF upd.pc = "idle" THEN [meta_at EXCEPT ![QueriedSlot(f)] = Some(now)]
                ELSE meta_at
    /\ UNCHANGED <<eth_market, btc_market, eth_up_token_id, eth_down_token_id,
                   btc_up_token_id, btc_down_token_id, last_market_refresh,
                   current_period_timestamp, disc, upd, updates, fresh_update, refreshed_at,
                   snapshot>>
    /\ UNCHANGED MonOthers

\* get_market returned Err: the market's tokens are left as they are
FMarketErr(f) ==
    /\ fetch[f].pc \in {"net_eth", "net_btc"}
    /\ fetch' = [fetch EXCEPT ![f].queried = Append(@, QueriedCid(f)),
                              ![f].pc = AfterTokens(fetch[f].pc)]
    /\ meta_at' = IF upd.pc = "idle" THEN [meta_at EXCEPT ![QueriedSlot(f)] = Some(now)]
                ELSE meta_at
    /\ UNCHANGED <<eth_market, btc_market, eth_up_token_id, eth_down_token_id,
                   btc_up_token_id, btc_down_token_id, last_market_refresh,
                   current_period_timestamp, disc, upd, updates, fresh_update, refreshed_at,
                   snapshot>>
    /\ UNCHANGED MonOthers

\* one pass of "for token in &details.tokens": classify, then store under the
\* matching field's lock (monitor.rs:124-133, 138-147)
FSetToken(f) ==
    /\ fetch[f].pc \in {"set_eth", "set_btc"}
    /\ LET token == Head(fetch[f].tokens)
           class == classify(token.outcome)
           eth == fetch[f].pc = "set_eth"
       IN  /\ eth_up_token_id' = IF eth /\ class = "up" THEN Some(token.token_id)
                                 ELSE eth_up_token_id
           /\ eth_down_token_id' = IF eth /\ class = "down" THEN Some(token.token_id)
                                   ELSE eth_down_token_id
           /\ btc_up_token_id' = IF ~eth /\ class = "up" THEN Some(token.token_id)
                                 ELSE btc_up_token_id
           /\ btc_down_token_id' = IF ~eth /\ class = "down" THEN Some(token.token_id)
                                   ELSE btc_down_token_id
    /\ fetch' = [fetch EXCEPT ![f].tokens = Tail(@),
                              ![f].walked = IF Tail(fetch[f].tokens) = <<>> THEN <<>>
                                            ELSE Append(@, Head(fetch[f].tokens)),
                              ![f].pc = IF Tail(fetch[f].tokens) = <<>>
                                        THEN AfterTokens(fetch[f].pc) ELSE @]
    /\ UNCHANGED <<eth_market, btc_market, last_market_refresh,
                   current_period_timestamp, disc, upd, updates, fresh_update, refreshed_at, meta_at,
                   snapshot>>
    /\ UNCHANGED MonOthers

\* *last_market_refresh = Some(Instant::now()) (monitor.rs:150)
FMark(f) ==
    /\ fetch[f].pc = "mark"
    /\ last_market_refresh' = Some(now)
    /\ refreshed_at' = Some(now)
    /\ fetch' = [fetch EXCEPT ![f].pc = "eth_id"]
    /\ UNCHANGED <<eth_market, btc_market, eth_up_token_id, eth_down_token_id,
                   btc_up_token_id, btc_down_token_id,
                   current_period_timestamp, disc, upd, updates, fresh_update, meta_at, snapshot>>
    /\ UNCHANGED MonOthers

\* the four cached token ids are cloned, one lock each, in order (monitor.rs:163-166)
FReadToken(f) ==
    /\ fetch[f].pc = "tok"
    /\ LET n == Len(fetch[f].ids) + 1
           id == CASE n = 1 -> eth_up_token_id [] n = 2 -> eth_down_token_id
                   [] n = 3 -> btc_up_token_id [] OTHER -> btc_down_token_id
       IN  fetch' = [fetch EXCEPT ![f].ids = Append(@, id),
                                  ![f].pc = IF n = 4 THEN "prices" ELSE "tok"]
    /\ UNCHANGED <<eth_market, btc_market, eth_up_token_id, eth_down_token_id,
                   btc_up_token_id, btc_down_token_id, last_market_refresh,
                   current_period_timestamp, disc, upd, updates, fresh_update, refreshed_at, meta_at,
                   snapshot>>
    /\ UNCHANGED MonOthers

\* the four fetch_token_price futures joined, and the snapshot returned
\* (monitor.rs:168-193; market_name and timestamp are left out of the record)
FPrices(f, ok) ==
    /\ fetch[f].pc = "prices"
    /\ snapshot' =
         [eth_market |->
            [condition_id |-> fetch[f].eth_condition_id,
             up_token |-> fetch_token_price(fetch[f].ids[1], ok[1][1], ok[1][2]),
             down_token |-> fetch_token_price(fetch[f].ids[2], ok[2][1], ok[2][2])],
          btc_market |->
            [condition_id |-> fetch[f].btc_condition_id,
             up_token |-> fetch_token_price(fetch[f].ids[3], ok[3][1], ok[3][2]),
             down_token |-> fetch_token_price(fetch[f].ids[4], ok[4][1], ok[4][2])]]
    /\ fetch' = [fetch EXCEPT ![f].pc = "returned",
                              ![f].price_queries = price_queries(fetch[f].ids, ok)]
    /\ UNCHANGED <<eth_market, btc_market, eth_up_token_id, eth_down_token_id,
                   btc_up_token_id, btc_down_token_id, last_market_refresh,
                   current_period_timestamp, disc, upd, updates, fresh_update, refreshed_at, meta_at>>
    /\ UNCHANGED MonOthers

\* start_monitoring: the handler has consumed the snapshot; the loop sleeps and
\* comes round again (monitor.rs:243-255)
FHandled(f) ==
    /\ fetch[f].pc = "returned"
    /\ snapshot' = None
    /\ fetch' = [fetch EXCEPT ![f] = FetchIdle]
    /\ UNCHANGED <<eth_market, btc_market, eth_up_token_id, eth_down_token_id,
                   btc_up_token_id, btc_down_token_id, last_market_refresh,
                   current_period_timestamp, disc, upd, updates, fresh_update, refreshed_at, meta_at>>
    /\ UNCHANGED MonOthers

\* update_markets entry and "*self.eth_market.lock().await = eth_market" (monitor.rs:58-63)
UStart(pair) ==
    /\ upd.pc = "idle"
    /\ disc.pc = "idle"
    /\ updates < MaxUpdates
    /\ eth_market' = pair[1]
    /\ upd' = [pc |-> "btc", eth |-> pair[1], btc |-> pair[2],
               alone |-> \A f \in Fetchers : fetch[f].pc = "idle"]
    /\ updates' = updates + 1
    /\ fresh_update' = FALSE
    /\ meta_at' = [m \in DOMAIN meta_at |-> None]
    /\ fetch' = [f \in Fetchers |->
                    [fetch[f] EXCEPT !.clean = FALSE, !.first_after_update = FALSE]]
    /\ UNCHANGED <<btc_market, eth_up_token_id, eth_down_token_id,
                   btc_up_token_id, btc_down_token_id, last_market_refresh,
                   current_period_timestamp, disc, refreshed_at, snapshot>>
    /\ UNCHANGED MonOthers

\* "*self.btc_market.lock().await = btc_market" (monitor.rs:64)
UBtc ==
    /\ upd.pc = "btc"
    /\ btc_market' = upd.btc
    /\ upd' = [upd EXCEPT !.pc = "eth_up"]
    /\ UNCHANGED <<eth_market, eth_up_token_id, eth_down_token_id,
                   btc_up_token_id, btc_down_token_id, last_market_refresh,
                   current_period_timestamp, disc, fetch, updates, fresh_update, refreshed_at, meta_at,
                   snapshot>>
    /\ UNCHANGED MonOthers

\* the four "*self.<x>_token_id.lock().await = None", in order (monitor.rs:67-70)
UClear ==
    /\ upd.pc \in {"eth_up", "eth_down", "btc_up", "btc_down"}
    /\ eth_up_token_id' = IF upd.pc = "eth_up" THEN None ELSE eth_up_token_id
    /\ eth_down_token_id' = IF upd.pc = "eth_down" THEN None ELSE eth_down_token_id
    /\ btc_up_token_id' = IF upd.pc = "btc_up" THEN None ELSE btc_up_token_id
    /\ btc_down_token_id' = IF upd.pc = "btc_down" THEN None ELSE btc_down_token_id
    /\ upd' = [upd EXCEPT !.pc = CASE upd.pc = "eth_up" -> "eth_down"
                                   [] upd.pc = "eth_down" -> "btc_up"
                                   [] upd.pc = "btc_up" -> "btc_down"
                                   [] OTHER -> "refresh"]
    /\ UNCHANGED <<eth_market, btc_market, last_market_refresh,
                   current_period_timestamp, disc, fetch, updates, fresh_update, refreshed_at, meta_at,
                   snapshot>>
    /\ UNCHANGED MonOthers

\* "*self.last_market_refresh.lock().await = None" (monitor.rs:71)
URefresh ==
    /\ upd.pc = "refresh"
    /\ last_market_refresh' = reset_refresh(last_market_refresh)
    /\ upd' = [upd EXCEPT !.pc = "period"]
    /\ UNCHANGED <<eth_market, btc_market, eth_up_token_id, eth_down_token_id,
                   btc_up_token_id, btc_down_token_id,
                   current_period_timestamp, disc, fetch, updates, fresh_update, refreshed_at, meta_at,
                   snapshot>>
    /\ UNCHANGED MonOthers

\* the period boundary recomputed and stored, then Ok(()) (monitor.rs:74-81)
UPeriod ==
    /\ upd.pc = "period"
    /\ current_period_timestamp' = period_of(now)
    /\ fresh_update' = upd.alone
    /\ upd' = UpdIdle
    /\ UNCHANGED <<eth_market, btc_market, eth_up_token_id, eth_down_token_id,
                   btc_up_token_id, btc_down_token_id, last_market_refresh,
                   fetch, updates, refreshed_at, meta_at, disc, snapshot>>
    /\ UNCHANGED MonOthers

\* should_discover_new_markets: the clock is read (monitor.rs:86-90).  The driver
\* that asks this is the one that calls update_markets, so the two do not overlap.
DStart ==
    /\ disc.pc = "idle"
    /\ upd.pc = "idle"
    /\ disc' = [pc |-> "compare", current_time |-> now, result |-> None]
    /\ UNCHANGED <<eth_market, btc_market, eth_up_token_id, eth_down_token_id,
                   btc_up_token_id, btc_down_token_id, last_market_refresh,
                   current_period_timestamp, fetch, upd, updates, fresh_update,
                   refreshed_at, meta_at, snapshot>>
    /\ UNCHANGED MonOthers

\* the stored period is read under its lock and compared (monitor.rs:92-95)
DCompare ==
    /\ disc.pc = "compare"
    /\ disc' = [disc EXCEPT !.pc = "idle",
                            !.result = Some(should_discover(disc.current_time,
                                                            current_period_timestamp))]
    /\ UNCHANGED <<eth_market, btc_market, eth_up_token_id, eth_down_token_id,
                   btc_up_token_id, btc_down_token_id, last_market_refresh,
                   current_period_timestamp, fetch, upd, updates, fresh_update,
                   refreshed_at, meta_at, snapshot>>
    /\ UNCHANGED MonOthers

\* time passes for the monitor
MonTick(d) ==
    /\ d > now
    /\ now' = d
    /\ UNCHANGED <<status, simulation_mode, total_profit, trades_executed, pending_trades,
                   market_cache, pending_lock, exec, sw, contributed, ledger, settled_profit,
           last_sweep>>
    /\ UNCHANGED <<dvars, mvars, svars>>

MonitorNext ==
    \/ \E f \in Fetchers : FStart(f)
    \/ \E f \in Fetchers : FReadEth(f)
    \/ \E f \in Fetchers : FReadBtc(f)
    \/ \E f \in Fetchers : FMarketOk(f)
    \/ \E f \in Fetchers : FMarketErr(f)
    \/ \E f \in Fetchers : FSetToken(f)
    \/ \E f \in Fetchers : FMark(f)
    \/ \E f \in Fetchers : FReadToken(f)
    \/ \E f \in Fetchers : \E ok \in PricePatterns : FPrices(f, ok)
    \/ \E f \in Fetchers : FHandled(f)
    \/ \E pair \in MarketPairs : UStart(pair)
    \/ UBtc
    \/ UClear
    \/ URefresh
    \/ UPeriod
    \/ \E d \in TimeGrid : MonTick(d)

\* the labellings get_market may answer with: the usual one; neither label known;
\* "1" and "0"; lower case; two labels that both say up; a label that says both;
\* three tokens, the third a second down; a label that only starts with "1"
Outcomes(tags, labels) == [i \in DOMAIN tags |-> [tag |-> tags[i], outcome |-> labels[i]]]
OutcomeLabellings ==
    {StandardOutcomes,
     Outcomes(<<"UP", "DOWN">>, << <<"Y", "e", "s">>, <<"N", "o">> >>),
     Outcomes(<<"UP", "DOWN">>, << <<"1">>, <<"0">> >>),
     Outcomes(<<"DOWN", "UP">>, << <<"d", "o", "w", "n">>, <<"u", "p">> >>),
     Outcomes(<<"UP", "DOWN">>, << <<"U", "p">>, <<"u", "P", "s">> >>),
     Outcomes(<<"UP", "DOWN">>, << <<"D", "o", "w", "n", "U", "p">>, <<"N", "o">> >>),
     Outcomes(<<"UP", "DOWN", "T3">>,
              << <<"U", "p">>, <<"D", "o", "w", "n">>, <<"d", "O", "w", "N">> >>),
     Outcomes(<<"UP", "DOWN">>, << <<"1", "0">>, <<"0">> >>)}

\* the poll alone against a Price Source that labels the tokens as it likes
RefreshNext ==
    \/ \E f \in Fetchers : FStart(f)
    \/ \E f \in Fetchers : FReadEth(f)
    \/ \E f \in Fetchers : FReadBtc(f)
    \/ \E f \in Fetchers : \E outcomes \in OutcomeLabellings : FMarketLabelled(f, outcomes)
    \/ \E f \in Fetchers : FMarketErr(f)
    \/ \E f \in Fetchers : FSetToken(f)
    \/ \E f \in Fetchers : FMark(f)
    \/ \E f \in Fetchers : FReadToken(f)
    \/ \E f \in Fetchers : \E ok \in PricePatterns : FPrices(f, ok)
    \/ \E f \in Fetchers : FHandled(f)
    \/ \E d \in TimeGrid : MonTick(d)

\* the period driver alone: should_discover_new_markets, update_markets, the clock
DiscoverNext ==
    \/ DStart
    \/ DCompare
    \/ \E pair \in MarketPairs : UStart(pair)
    \/ UBtc
    \/ UClear
    \/ URefresh
    \/ UPeriod
    \/ \E d \in TimeGrid : MonTick(d)

(***************************************************************************)
(* Monitor: update_markets against fetch_market_data                       *)
(***************************************************************************)
\* the market a snapshot slot belongs to: slots 1, 2 are ETH up/down, 3, 4 BTC up/down
SlotMarket(i, eth, btc) == IF i <= 2 THEN eth ELSE btc

\* C6: a fetch_market_data that starts after update_markets has returned prices
\* only token identifiers resolved from the post-swap markets (or leaves the
\* slot empty), under the post-swap condition ids.
C6_FetchAfterSwapUsesPostSwapTokens ==
    \A f \in Fetchers :
        (fetch[f].clean /\ fetch[f].pc = "prices") =>
            /\ fetch[f].eth_condition_id = eth_market
            /\ fetch[f].btc_condition_id = btc_market
            /\ \A i \in 1..4 :
                  \/ fetch[f].ids[i] = None
                  \/ Unwrap(fetch[f].ids[i])[1] = SlotMarket(i, eth_market, btc_market)

\* C7: no get_current_condition_ids (alone or inside fetch_market_data)
\* observes a condition-id pair made of one pre-update and one post-update market.
C7_BothMarketsReplacedTogether ==
    \A f \in Fetchers :
        fetch[f].pc \in {"net_eth", "set_eth", "net_btc", "set_btc", "mark",
                         "tok", "prices", "returned"}
            => <<fetch[f].eth_condition_id, fetch[f].btc_condition_id>> \in MarketPairs

\* C8: when update_markets returns with no other monitor operation in flight,
\* the four cached token identifiers and the last-refresh instant are unset and
\* the stored period boundary is the current 900-second boundary; the next
\* fetch_market_data queries the metadata of both new condition ids and prices
\* only identifiers resolved from them, however recent the previous refresh.
C8_UpdateForcesReresolve ==
    [][/\ (upd.pc = "period" /\ upd.alone /\ upd'.pc = "idle") =>
             /\ eth_up_token_id' = None /\ eth_down_token_id' = None
             /\ btc_up_token_id' = None /\ btc_down_token_id' = None
             /\ last_market_refresh' = None
             /\ current_period_timestamp' = (now' \div 900) * 900
       /\ \A f \in Fetchers :
             (fetch'[f].first_after_update /\ fetch'[f].pc = "prices") =>
                 /\ fetch'[f].queried = <<eth_market', btc_market'>>
                 /\ \A i \in 1..4 :
                       \/ fetch'[f].ids[i] = None
                       \/ Unwrap(fetch'[f].ids[i])[1]
                              = SlotMarket(i, eth_market', btc_market')
      ]_vars

\* the first fetch after an update to new markets, less than 900 seconds after
\* the previous refresh, is about to price the re-resolved identifiers
C8_Witness ==
    \E f \in Fetchers :
        /\ fetch[f].first_after_update /\ fetch[f].pc = "prices"
        /\ IsSome(fetch[f].prev_refresh)
        /\ now - Unwrap(fetch[f].prev_refresh) < 900
        /\ eth_market = E2 /\ btc_market = B2
        /\ fetch[f].queried = <<E2, B2>>
        /\ fetch[f].ids = <<Some(TokenId(E2, "UP")), Some(TokenId(E2, "DOWN")),
                            Some(TokenId(B2, "UP")), Some(TokenId(B2, "DOWN"))>>
        /\ current_period_timestamp = (now \div 900) * 900

(***************************************************************************)
(* Monitor: metadata lookups against price queries                         *)
(***************************************************************************)
\* C18: a poll calls get_market only if, when it started, the last-refresh
\* instant was unset or at least 900 seconds old; with no update_markets call in
\* between, two get_market calls for the same market are at least 900 seconds
\* apart; and every poll, refreshing or not, issues the BUY and SELL price
\* queries of every token identifier it holds.
C18_MetadataOncePerPeriodPricesEveryPoll ==
    [][\A f \in Fetchers :
          /\ (fetch[f].pc = "idle" /\ fetch'[f].pc # "idle") =>
                 fetch'[f].should_refresh =
                     (IF last_market_refresh = None THEN TRUE
                      ELSE now - Unwrap(last_market_refresh) >= 900)
          /\ (fetch'[f].pc # "idle" /\ fetch'[f].queried # fetch[f].queried) =>
                 /\ fetch[f].should_refresh
                 /\ \A m \in DOMAIN meta_at :
                       (meta_at'[m] # meta_at[m] /\ IsSome(meta_at[m])) =>
                           Unwrap(meta_at'[m]) - Unwrap(meta_at[m]) >= 900
          /\ (fetch[f].pc # "returned" /\ fetch'[f].pc = "returned") =>
                 \A i \in 1..4 : \A side \in {"BUY", "SELL"} :
                     IsSome(fetch'[f].ids[i]) =>
                         <<i, side>> \in DOMAIN fetch'[f].price_queries
      ]_vars

\* a poll 840 seconds after the metadata of both markets was fetched returns
\* without a get_market call and with all eight price queries issued
C18_Witness ==
    \E f \in Fetchers :
        /\ fetch[f].pc = "returned"
        /\ now = 840
        /\ meta_at = [m \in {"eth", "btc"} |-> Some(0)]
        /\ ~fetch[f].should_refresh
        /\ fetch[f].queried = <<>>
        /\ Cardinality(DOMAIN fetch[f].price_queries) = 8

(***************************************************************************)
(* Monitor: the snapshot fetch_market_data returns                         *)
(***************************************************************************)
\* slot i of a snapshot: 1, 2 are ETH up/down, 3, 4 BTC up/down
SlotOf(snap, i) ==
    CASE i = 1 -> snap.eth_market.up_token [] i = 2 -> snap.eth_market.down_token
      [] i = 3 -> snap.btc_market.up_token [] OTHER -> snap.btc_market.down_token

\* what the get_price call of slot i and a side returned to poll p: Some(price),
\* or None when it failed or was never issued
SideResult(p, i, side) ==
    IF <<i, side>> \in DOMAIN p.price_queries THEN p.price_queries[<<i, side>>] ELSE None

\* C19: in the snapshot a poll returns, a slot is empty exactly when the token
\* identifier the poll read for it is unset or both its BUY and SELL queries
\* failed; otherwise it holds a TokenPrice with that identifier, ask the BUY
\* result and bid the SELL result, each absent exactly when that query failed;
\* and the price step always ends in a returned snapshot, whatever failed.
C19_SlotEmptyIffNoIdOrBothSidesFailed ==
    [][\A f \in Fetchers :
          (fetch[f].pc = "prices" /\ fetch'[f].pc # "prices") =>
              /\ fetch'[f].pc = "returned"
              /\ snapshot' # None
              /\ \A i \in 1..4 :
                    LET id == fetch'[f].ids[i]
                        buy == SideResult(fetch'[f], i, "BUY")
                        sell == SideResult(fetch'[f], i, "SELL")
                        slot == SlotOf(snapshot', i)
                    IN  /\ slot = None <=> (id = None \/ (buy = None /\ sell = None))
                        /\ slot # None =>
                              Unwrap(slot) = [token_id |-> Unwrap(id), bid |-> sell,
                                              ask |-> buy]
      ]_vars

\* a returned snapshot in which one slot lost its BUY query only (bid kept, no
\* ask), and the other three slots are priced on both sides
C19_Witness ==
    \E f \in Fetchers :
        /\ fetch[f].pc = "returned"
        /\ snapshot # None
        /\ \A i \in 1..4 : IsSome(fetch[f].ids[i])
        /\ SideResult(fetch[f], 1, "BUY") = None
        /\ SlotOf(snapshot, 1) =
              Some([token_id |-> TokenId(E1, "UP"), bid |-> Some(65), ask |-> None])
        /\ \A i \in 2..4 : IsSome(Unwrap(SlotOf(snapshot, i)).ask)

C21_RecordedLegsAreTheLegsBought ==
    \A k \in DOMAIN pending_trades :
        k \in DOMAIN ledger =>
            \A n \in 1..Len(ledger[k]) :
                /\ pending_trades[k].eth_token_id = ledger[k][n].eth_up_token_id
                /\ pending_trades[k].btc_token_id = ledger[k][n].btc_down_token_id

\* C22: in live mode, for a position built from a single opportunity, every
\* SELL order submitted at settlement has the size of the BUY order that
\* execute_arbitrage submitted for the same token.
C22_SellSizeIsBuySize ==
    ~simulation_mode =>
        \A t \in Sweepers : \A k \in DOMAIN sw[t].sold :
            (k \in DOMAIN ledger /\ Len(ledger[k]) = 1) =>
                \A n \in 1..Len(sw[t].sold[k]) :
                    \E b \in 1..Len(contributed[k].orders) :
                        /\ contributed[k].orders[b].side = "BUY"
                        /\ contributed[k].orders[b].token_id = sw[t].sold[k][n].token_id
                        /\ contributed[k].orders[b].size = sw[t].sold[k][n].size

\* C23: each pending position is settled exactly once.  Whenever no sweep is
\* running, total_profit is the sum, over the positions removed so far, of the
\* profit of each by its units and investment at removal: no position has been
\* counted twice, and none has been counted and left in the map.
C23_EachPositionSettledOnce ==
    (\A t \in Sweepers : sw[t].pc = "idle") => total_profit = settled_profit

(***************************************************************************)
(* Monitor: a refresh whose metadata query fails                           *)
(***************************************************************************)
\* the four cached token identifiers
CachedIds == <<eth_up_token_id, eth_down_token_id, btc_up_token_id, btc_down_token_id>>

\* C25: a refresh records the last-refresh instant whether or not its get_market
\* queries succeeded: a failed query changes no cached token identifier and the
\* refresh goes on to the next market and then to the recording of the instant;
\* and once a market has been queried, with whatever result, it is not queried
\* again until 900 seconds later or the next update_markets.
C25_FailedQueryKeepsIdsAndRefreshIsRecorded ==
    [][\A f \in Fetchers :
          /\ FMarketErr(f) =>
                 /\ CachedIds' = CachedIds
                 /\ fetch'[f].pc = (IF fetch[f].pc = "net_eth" THEN "net_btc" ELSE "mark")
          /\ (fetch[f].pc = "mark" /\ fetch'[f].pc # "mark") =>
                 /\ last_market_refresh' = Some(now)
                 /\ fetch'[f].pc = "eth_id"
          /\ (fetch[f].pc \in {"net_eth", "net_btc"} /\ fetch'[f].pc # fetch[f].pc
              /\ upd.pc = "idle" /\ IsSome(meta_at[QueriedSlot(f)])) =>
                 now - Unwrap(meta_at[QueriedSlot(f)]) >= 900
      ]_vars

\* the ETH query of the refresh at 0 failed and the BTC query succeeded; the instant
\* was recorded all the same, and the poll at 840 has returned without a metadata
\* query, its ETH identifiers still unset
C25_Witness ==
    \E f \in Fetchers :
        /\ updates = 0 /\ upd.pc = "idle"
        /\ now = 840
        /\ last_market_refresh = Some(0)
        /\ meta_at = [m \in {"eth", "btc"} |-> Some(0)]
        /\ eth_up_token_id = None /\ eth_down_token_id = None
        /\ btc_up_token_id = Some(TokenId(B1, "UP"))
        /\ fetch[f].pc = "returned"
        /\ fetch[f].queried = <<>>
        /\ fetch[f].ids[1] = None

(***************************************************************************)
(* Monitor: how a refresh classifies the tokens get_market returns         *)
(***************************************************************************)
\* the letters of UP and DOWN, each in its two cases
CasePairs == {<<"u", "U">>, <<"p", "P">>, <<"d", "D">>, <<"o", "O">>, <<"w", "W">>,
              <<"n", "N">>}
SameLetter(c, d) == c = d \/ <<c, d>> \in CasePairs \/ <<d, c>> \in CasePairs

\* label holds word somewhere, letter case set aside
ContainsWord(label, word) ==
    \E i \in 0..(Len(label) - Len(word)) :
        \A j \in 1..Len(word) : SameLetter(label[i + j], word[j])

\* the class the rule gives an outcome label
ClassOfLabel(label) ==
    IF ContainsWord(label, <<"U", "P">>) \/ label = <<"1">> THEN "up"
    ELSE IF ContainsWord(label, <<"D", "O", "W", "N">>) \/ label = <<"0">> THEN "down"
    ELSE "ignored"

\* the identifier of the last token of tokens in class c, if there is one
LastOfClass(tokens, c) ==
    LET hits == {i \in DOMAIN tokens : ClassOfLabel(tokens[i].outcome) = c}
    IN  IF hits = {} THEN None
        ELSE Some(tokens[CHOOSE i \in hits : \A j \in hits : j <= i].token_id)

\* C27: during a token refresh each returned token is classified on its own and
\* without regard to letter case: up if its label contains UP or equals 1,
\* otherwise down if it contains DOWN or equals 0, otherwise ignored.  A
\* classified token overwrites that market's cached up or down identifier and
\* nothing else, an ignored token changes no cached identifier, so after each
\* token the up (down) identifier is that of the last up (down) token met so far
\* if there was one; and the refresh does not fail: when the tokens are
\* exhausted it goes on to the next market or to the recording of the instant.
C27_TokensClassifiedByLabelLastWins ==
    [][\A f \in Fetchers :
          (fetch[f].pc \in {"set_eth", "set_btc"} /\ fetch'[f] # fetch[f]) =>
              LET token == Head(fetch[f].tokens)
                  class == ClassOfLabel(token.outcome)
                  eth == fetch[f].pc = "set_eth"
                  met == Append(fetch[f].walked, token)
                  up == IF eth THEN eth_up_token_id ELSE btc_up_token_id
                  down == IF eth THEN eth_down_token_id ELSE btc_down_token_id
                  up_after == IF eth THEN eth_up_token_id' ELSE btc_up_token_id'
                  down_after == IF eth THEN eth_down_token_id' ELSE btc_down_token_id'
              IN  /\ up_after = IF class = "up" THEN Some(token.token_id) ELSE up
                  /\ down_after = IF class = "down" THEN Some(token.token_id) ELSE down
                  /\ IF eth
                     THEN <<btc_up_token_id', btc_down_token_id'>> =
                              <<btc_up_token_id, btc_down_token_id>>
                     ELSE <<eth_up_token_id', eth_down_token_id'>> =
                              <<eth_up_token_id, eth_down_token_id>>
                  /\ IsSome(LastOfClass(met, "up")) => up_after = LastOfClass(met, "up")
                  /\ IsSome(LastOfClass(met, "down")) => down_after = LastOfClass(met, "down")
                  /\ fetch'[f].pc = IF Len(fetch[f].tokens) > 1 THEN fetch[f].pc
                                    ELSE IF eth THEN "net_btc" ELSE "mark"
      ]_vars

\* the refreshes at 0 and at 900 have both run.  One of them met ETH tokens
\* labelled "Up" and "uPs": both are up and the second has overwritten the first;
\* the ETH down identifier is the one the other refresh stored, which the up
\* tokens left alone.  The BTC down identifier is that of the third token of a
\* market with two down tokens, "Down" and "dOwN".
C27_Witness ==
    \E f \in Fetchers :
        /\ now = 900
        /\ fetch[f].pc = "eth_id"
        /\ last_market_refresh = Some(900)
        /\ fetch[f].queried = <<E1, B1>>
        /\ eth_up_token_id = Some(TokenId(E1, "DOWN"))
        /\ eth_down_token_id = Some(TokenId(E1, "DOWN"))
        /\ btc_up_token_id = Some(TokenId(B1, "UP"))
        /\ btc_down_token_id = Some(TokenId(B1, "T3"))

(***************************************************************************)
(* Tracker: the two statistics                                             *)
(***************************************************************************)
\* C26: trades_executed goes up by exactly one when an execute_arbitrage call
\* completes (simulation or live, new or accumulated position, orders accepted
\* or failed) and changes at no other step, so never in check_pending_trades;
\* no step of execute_arbitrage changes total_profit; get_stats changes neither
\* and returns total_profit as it stood when the call read it together with
\* trades_executed as it stands when the call returns.
C26_CountPerCallStatsReadOnly ==
    [][/\ \A t \in Executors :
             (exec[t].pc # "idle" /\ exec'[t].pc = "idle") =>
                 trades_executed' = trades_executed + 1
       /\ (trades_executed' # trades_executed) =>
             \E t \in Executors : exec[t].pc # "idle" /\ exec'[t].pc = "idle"
       /\ (exec' # exec) => total_profit' = total_profit
       /\ (sw' # sw) => trades_executed' = trades_executed
       /\ (stats' # stats) =>
             /\ total_profit' = total_profit
             /\ trades_executed' = trades_executed
             /\ (stats'.pc = "trades") => stats'.total = total_profit
             /\ (stats'.pc = "returned") =>
                    stats'.result = Some(<<stats.total, trades_executed>>)
      ]_vars

\* live mode: two calls have completed, what they bought has been settled by the
\* sweep with a profit, and get_stats has returned the two values as they stand
C26_Witness ==
    /\ ~simulation_mode
    /\ trades_executed = 2
    /\ total_profit # 0
    /\ pending_trades = <<>>
    /\ DOMAIN ledger = {}
    /\ stats.pc = "returned"
    /\ stats.result = Some(<<total_profit, trades_executed>>)

(***************************************************************************)
(* Tracker: the sweep retries until the position is settled                *)
(***************************************************************************)
LiveKeys == {trade_key(o.eth_condition_id, o.btc_condition_id) : o \in LiveOpps}

\* the position under key k is older than 14 minutes and both its markets are closed
OldAndBothClosed(k) ==
    /\ k \in DOMAIN pending_trades
    /\ now - pending_trades[k].timestamp >= 14 * 60
    /\ status[pending_trades[k].eth_condition_id] # "open"
    /\ status[pending_trades[k].btc_condition_id] # "open"

\* from some point on no get_market of the sweep fails
GetMarketSucceedsInTheEnd == <>[][\A t \in Sweepers : ~SwNetErr(t)]_vars

\* C24: under repeated sweeps with fair scheduling, if get_market succeeds in the
\* end, a pending position that is older than 14 minutes and whose two markets
\* are both closed (a closed market stays closed) is eventually settled and
\* removed from the pending map.
C24_OldClosedPositionEventuallyRemoved ==
    GetMarketSucceedsInTheEnd =>
        \A k \in LiveKeys : OldAndBothClosed(k) ~> (k \notin DOMAIN pending_trades)

(***************************************************************************)
(* calculate_position_size in the arithmetic the build uses: IEEE-754      *)
(* binary64, every operation rounded to 53 significant bits, ties to even. *)
(* A natural number is a little-endian sequence of limbs without leading   *)
(* zero limbs; an f64 is <<m, e>> standing for m * 2^e.                    *)
(***************************************************************************)
LimbBits == 15
LimbBase == 32768
MantissaBits == 53

RECURSIVE BNorm(_)
BNorm(a) ==
    IF a = <<>> THEN <<>>
    ELSE IF a[Len(a)] = 0 THEN BNorm(SubSeq(a, 1, Len(a) - 1)) ELSE a

RECURSIVE BFromInt(_)
BFromInt(n) == IF n = 0 THEN <<>> ELSE <<n % LimbBase>> \o BFromInt(n \div LimbBase)

BLimb(a, i) == IF i <= Len(a) THEN a[i] ELSE 0

RECURSIVE BAddC(_, _, _, _)
BAddC(a, b, i, carry) ==
    IF i > Len(a) /\ i > Len(b)
    THEN IF carry = 0 THEN <<>> ELSE <<carry>>
    ELSE LET s == BLimb(a, i) + BLimb(b, i) + carry
         IN  <<s % LimbBase>> \o BAddC(a, b, i + 1, s \div LimbBase)

BAdd(a, b) == BAddC(a, b, 1, 0)

RECURSIVE BSubC(_, _, _, _)
BSubC(a, b, i, borrow) ==
    IF i > Len(a) THEN <<>>
    ELSE LET d == a[i] - BLimb(b, i) - borrow
         IN  IF d < 0 THEN <<d + LimbBase>> \o BSubC(a, b, i + 1, 1)
             ELSE <<d>> \o BSubC(a, b, i + 1, 0)

\* a - b for a >= b
BSub(a, b) == BNorm(BSubC(a, b, 1, 0))

RECURSIVE BCmpFrom(_, _, _)
BCmpFrom(a, b, i) ==
    IF i = 0 THEN 0
    ELSE IF a[i] > b[i] THEN 1
    ELSE IF a[i] < b[i] THEN -1
    ELSE BCmpFrom(a, b, i - 1)

BCmp(a, b) ==
    IF Len(a) > Len(b) THEN 1
    ELSE IF Len(a) < Len(b) THEN -1
    ELSE BCmpFrom(a, b, Len(a))

RECURSIVE BMulSmallC(_, _, _, _)
BMulSmallC(a, k, i, carry) ==
    IF i > Len(a) THEN BFromInt(carry)
    ELSE LET p == a[i] * k + carry
         IN  <<p % LimbBase>> \o BMulSmallC(a, k, i + 1, p \div LimbBase)

BMulSmall(a, k) == BNorm(BMulSmallC(a, k, 1, 0))

BShiftLimbs(a, n) == IF a = <<>> THEN <<>> ELSE [i \in 1..n |-> 0] \o a

RECURSIVE BMulFrom(_, _, _)
BMulFrom(a, b, i) ==
    IF i > Len(b) THEN <<>>
    ELSE BAdd(BShiftLimbs(BMulSmall(a, b[i]), i - 1), BMulFrom(a, b, i + 1))

BMul(a, b) == BMulFrom(a, b, 1)

RECURSIVE Pow2Small(_)
Pow2Small(k) == IF k = 0 THEN 1 ELSE 2 * Pow2Small(k - 1)

BPow2(k) == BShiftLimbs(<<Pow2Small(k % LimbBits)>>, k \div LimbBits)

RECURSIVE BitLenSmall(_)
BitLenSmall(n) == IF n = 0 THEN 0 ELSE 1 + BitLenSmall(n \div 2)

BBitLen(a) == IF a = <<>> THEN 0 ELSE LimbBits * (Len(a) - 1) + BitLenSmall(a[Len(a)])

BBit(a, i) == (BLimb(a, (i \div LimbBits) + 1) \div Pow2Small(i % LimbBits)) % 2

\* one step of binary long division: bit i of a is brought down into the remainder
BDivStep(a, b, i, qr) ==
    LET r2 == BAdd(BAdd(qr[2], qr[2]), IF BBit(a, i) = 1 THEN <<1>> ELSE <<>>)
        ge == BCmp(r2, b) >= 0
    IN  <<BAdd(BAdd(qr[1], qr[1]), IF ge THEN <<1>> ELSE <<>>),
          IF ge THEN BSub(r2, b) ELSE r2>>

\* binary long division over bits hi down to lo of a, continuing from qr
RECURSIVE BDivBits(_, _, _, _, _)
BDivBits(a, b, hi, lo, qr) ==
    IF hi < lo THEN qr
    ELSE CHOOSE res \in {BDivBits(a, b, hi - 1, lo, next) :
                             next \in {BDivStep(a, b, hi, qr)}} : TRUE

\* binary long division over limbs Len(a) down to l of a: <<quotient, remainder>>
RECURSIVE BDivLimbs(_, _, _)
BDivLimbs(a, b, l) ==
    IF l > Len(a) THEN <<<<>>, <<>>>>
    ELSE BDivBits(a, b, LimbBits * l - 1, LimbBits * (l - 1), BDivLimbs(a, b, l + 1))

\* In the operators below a CHOOSE over a one-element set binds an operand to
\* its value, so that it is computed once, before the operation that uses it.
BDivMod(a, b) == CHOOSE qr \in {BDivLimbs(av, bv, 1) : av \in {a}, bv \in {b}} : TRUE

\* nv * 2^e rounded to the nearest f64, ties to even
Round53V(nv, e) ==
    IF BBitLen(nv) <= MantissaBits THEN <<nv, e>>
    ELSE LET s == BBitLen(nv) - MantissaBits
             qr == BDivMod(nv, BPow2(s))
             c == BCmp(qr[2], BPow2(s - 1))
             up == c > 0 \/ (c = 0 /\ BBit(qr[1], 0) = 1)
         IN  <<IF up THEN BAdd(qr[1], <<1>>) ELSE qr[1], e + s>>

Round53(n, e) == CHOOSE r \in {Round53V(nv, e) : nv \in {n}} : TRUE

\* an integer as f64 (exact below 2^31)
F64(n) == <<BFromInt(n), 0>>

\* x * y
F64Mul(x, y) ==
    CHOOSE r \in {Round53(BMul(xv[1], yv[1]), xv[2] + yv[2]) : xv \in {x}, yv \in {y}} : TRUE

\* xv / yv: the quotient to more than 55 bits, a sticky bit for the remainder, rounded
F64DivV(xv, yv) ==
    LET k == MantissaBits + 3 + BBitLen(yv[1])
        qr == BDivMod(BMul(xv[1], BPow2(k)), yv[1])
        sticky == IF qr[2] = <<>> THEN <<>> ELSE <<1>>
    IN  Round53(BAdd(BAdd(qr[1], qr[1]), sticky), xv[2] - yv[2] - k - 1)

\* x / y
F64Div(x, y) == CHOOSE r \in {F64DivV(xv, yv) : xv \in {x}, yv \in {y}} : TRUE

\* -1, 0, 1 as xv <, =, > yv
F64CmpV(xv, yv) ==
    LET e == IF xv[2] <= yv[2] THEN xv[2] ELSE yv[2]
    IN  BCmp(BMul(xv[1], BPow2(xv[2] - e)), BMul(yv[1], BPow2(yv[2] - e)))

F64Cmp(x, y) == CHOOSE r \in {F64CmpV(xv, yv) : xv \in {x}, yv \in {y}} : TRUE

\* f64::min
F64Min(x, y) ==
    CHOOSE r \in {IF F64Cmp(xv, yv) <= 0 THEN xv ELSE yv : xv \in {x}, yv \in {y}} : TRUE

\* f64::try_from(Decimal) of a Decimal given in cents
F64FromDecimal(c) == F64Div(F64(c), F64(dollar))

\* calculate_position_size with max_position_size in whole dollars, total_cost in cents
calculate_position_size_f64(max_size_dollars, total_cost) ==
    LET max_size == F64(max_size_dollars)
        cost_per_unit == F64FromDecimal(total_cost)
        units == F64Div(max_size, cost_per_unit)
        position_size == F64Min(F64Mul(units, cost_per_unit), max_size)
    IN  position_size

\* config.json max_position_size values, in dollars
SizingMaxSizes == {75, 100, 207, 414}
\* total_cost of an opportunity check_arbitrage can emit, in cents
SizingCosts == min_price_threshold..(dollar - 1)

SizingIdle == sizing = None

SizingInit ==
    sizing \in {[max_position_size |-> m, total_cost |-> c, position_size |-> None] :
                    m \in SizingMaxSizes, c \in SizingCosts}

Size ==
    /\ sizing # None
    /\ sizing.position_size = None
    /\ sizing' = [sizing EXCEPT !.position_size =
                     Some(calculate_position_size_f64(sizing.max_position_size,
                                                      sizing.total_cost))]
    /\ UNCHANGED <<dvars, tvars, mvars, stats>>

SizingNext == Size

(***************************************************************************)
(* Properties of position sizing (SpecSizing)                              *)
(***************************************************************************)
\* max_position_size is a whole number of units of the cost, in exact decimal arithmetic
ExactMultiple == (sizing.max_position_size * dollar) % sizing.total_cost = 0

\* C17: the position_size calculate_position_size returns never exceeds
\* max_position_size, and equals it whenever max_position_size is an exact
\* multiple of the cost of one unit.
C17_SizeWithinMaxAndExactOnMultiples ==
    (sizing # None /\ sizing.position_size # None) =>
        LET position_size == Unwrap(sizing.position_size)
            max_size == F64(sizing.max_position_size)
        IN  /\ F64Cmp(position_size, max_size) <= 0
            /\ ExactMultiple => F64Cmp(position_size, max_size) = 0

MonitorInit == TraderInit /\ simulation_mode /\ DetIdle /\ MonInit /\ SizingIdle
SpecMonitor == MonitorInit /\ [][MonitorNext]_vars
SpecDiscover == MonitorInit /\ [][DiscoverNext]_vars
SpecRefresh == MonitorInit /\ [][RefreshNext]_vars

Init == TraderInit /\ DetIdle /\ MonInit /\ SizingIdle
Spec == Init /\ [][TraderNext]_vars
SpecExec == Init /\ [][ExecNext]_vars
SpecLive == Init /\ [][LiveNext]_vars /\ LiveFairness
SpecStats == Init /\ [][StatsNext]_vars

DetectorInit == DetInit /\ TraderInit /\ simulation_mode /\ MonInit /\ SizingIdle
SpecDetector == DetectorInit /\ [][DetNext]_vars

SizingSpecInit == SizingInit /\ TraderInit /\ simulation_mode /\ DetIdle /\ MonInit
SpecSizing == SizingSpecInit /\ [][SizingNext]_vars

====
